---- MODULE Spec2Model ----
(***************************************************************************)
(* Model of the Schrodinger2D simulation core (src/src/sim):               *)
(* the Simulation harness, its stability monitor, the PotentialField       *)
(* compositor and the Crank-Nicolson ADI step.                             *)
(*                                                                         *)
(* Number representation.  The program computes in IEEE doubles; the model *)
(* computes in integers:                                                    *)
(*   - a psi cell is a record [nf, re, im]: nf marks a cell whose real or  *)
(*     imaginary part is NaN/Inf, re/im are integer amplitudes in a fixed  *)
(*     amplitude quantum (the ADI step is linear in psi, so the quantum is *)
(*     free);                                                              *)
(*   - coefficients (V, alpha, the tridiagonal diagonals, exp factors) are *)
(*     fixed-point numbers with FixQ units per 1.0;                        *)
(*   - a double-valued mass is a record [nf, v], v counted in units of     *)
(*     (amplitude quantum)^2 / MassDen so that sum*dx*dy is an integer;    *)
(*   - a relative drift is an exact fraction [nf, n, d];                   *)
(*   - lengths are exact fractions [n, d].                                 *)
(* Every arithmetic helper propagates nf the way IEEE propagates NaN, and  *)
(* every ordered comparison with an nf operand is FALSE.                   *)
(***************************************************************************)
EXTENDS Integers, Naturals, Sequences, FiniteSets, TLC

\* ------------------------------------------------------------------------
\* Bounds of the model
\* ------------------------------------------------------------------------
\* fixed-point resolution of coefficients (units per 1.0)
FixQ == 64
\* most calls that change psi or count a time step (injectGaussian, step,
\* update_diagnostics(true)) between two re-syntheses of psi
MaxOps == 2
\* every min(Nx,Ny) the model reaches divides LcmDim
LcmDim == 8 * 9
MassDen == LcmDim * LcmDim

\* ------------------------------------------------------------------------
\* Program constants
\* ------------------------------------------------------------------------
\* std::max(8, newNx)
MinGrid == 8
\* std::max(1e-15, initial_mass), expressed in mass units
MassFloor == 1000

\* an array, evaluated once (a function expression is otherwise re-evaluated at
\* every application)
Array(f) == IF f = f THEN f ELSE f

Max(a, b) == IF a < b THEN b ELSE a
Min(a, b) == IF b < a THEN b ELSE a
Abs(a) == IF a < 0 THEN -a ELSE a
\* integer division rounding to nearest (b > 0)
RDiv(a, b) == (2 * a + b) \div (2 * b)

\* ------------------------------------------------------------------------
\* Exact fractions (lengths, tolerances, cap_ratio, dt), kept in lowest terms
\* with a positive denominator
\* ------------------------------------------------------------------------
RECURSIVE Gcd(_, _)
Gcd(a, b) == IF b = 0 THEN a ELSE Gcd(b, a % b)
Frac(n, d) ==
    LET g == Gcd(Abs(n), Abs(d))
        sgn == IF d < 0 THEN -1 ELSE 1
    IN  IF g = 0 THEN [n |-> 0, d |-> 1]
        ELSE [n |-> sgn * (n \div g), d |-> sgn * (d \div g)]
FracInt(k) == [n |-> k, d |-> 1]
FracAdd(a, b) == Frac(a.n * b.d + b.n * a.d, a.d * b.d)
FracSub(a, b) == Frac(a.n * b.d - b.n * a.d, a.d * b.d)
FracMul(a, b) == Frac(a.n * b.n, a.d * b.d)
\* a / b for b # 0
FracDiv(a, b) == Frac(a.n * b.d, a.d * b.n)
FracLess(a, b) == a.n * b.d < b.n * a.d
FracMin(a, b) == IF FracLess(b, a) THEN b ELSE a
FracMax(a, b) == IF FracLess(a, b) THEN b ELSE a
\* std::floor
FracFloor(a) == a.n \div a.d
\* std::round: to nearest, halves away from zero
FracRound(a) ==
    IF a.n >= 0 THEN (2 * a.n + a.d) \div (2 * a.d)
    ELSE -((2 * (-a.n) + a.d) \div (2 * a.d))
\* fixed-point value of a fraction
FracFix(a) == RDiv(a.n * FixQ, a.d)

\* ------------------------------------------------------------------------
\* Doubles that may be non-finite
\* ------------------------------------------------------------------------
Num(v) == [nf |-> FALSE, v |-> v]
NaN == [nf |-> TRUE, v |-> 0]
NumAdd(a, b) == IF a.nf \/ b.nf THEN NaN ELSE Num(a.v + b.v)
\* a > b on doubles: FALSE when either side is NaN
NumGt(a, b) == ~a.nf /\ ~b.nf /\ a.v > b.v
\* std::max(a, b) == (a < b) ? b : a, with a finite constant a
NumMaxConst(a, b) == IF ~b.nf /\ a < b.v THEN b.v ELSE a

Ratio(n, d) == [nf |-> FALSE, n |-> n, d |-> d]
RatioNaN == [nf |-> TRUE, n |-> 0, d |-> 1]
RatioZero == Ratio(0, 1)
\* r > tol on doubles (tol an exact fraction)
RatioGt(r, tol) == ~r.nf /\ r.n * tol.d > tol.n * r.d

\* ------------------------------------------------------------------------
\* Complex cells
\* ------------------------------------------------------------------------
Cx(re, im) == [nf |-> FALSE, re |-> re, im |-> im]
CNaN == [nf |-> TRUE, re |-> 0, im |-> 0]
CZero == Cx(0, 0)
CAdd(a, b) == IF a.nf \/ b.nf THEN CNaN ELSE Cx(a.re + b.re, a.im + b.im)
CSub(a, b) == IF a.nf \/ b.nf THEN CNaN ELSE Cx(a.re - b.re, a.im - b.im)
CScale(k, a) == IF a.nf THEN CNaN ELSE Cx(k * a.re, k * a.im)
\* product of a fixed-point coefficient and a value (or another coefficient)
CMulFix(c, a) ==
    IF c.nf \/ a.nf THEN CNaN
    ELSE Cx(RDiv(c.re * a.re - c.im * a.im, FixQ),
            RDiv(c.re * a.im + c.im * a.re, FixQ))
\* quotient a / b with b a fixed-point coefficient; x/0 is non-finite
CDivFix(a, b) ==
    IF a.nf \/ b.nf THEN CNaN
    ELSE LET den == b.re * b.re + b.im * b.im
         IN  IF den = 0 THEN CNaN
             ELSE Cx(RDiv((a.re * b.re + a.im * b.im) * FixQ, den),
                     RDiv((a.im * b.re - a.re * b.im) * FixQ, den))
\* std::norm(z)
CNorm(a) == IF a.nf THEN NaN ELSE Num(a.re * a.re + a.im * a.im)
\* is_finite_complex(z)
is_finite_complex(z) == ~z.nf

\* ------------------------------------------------------------------------
\* Elementary functions, quantised
\* ------------------------------------------------------------------------
\* std::exp(-t) for a fraction t >= 0, rounded to the nearest quarter and
\* returned in fixed point (exp(-t) >= 7/8 iff t < 0.134, >= 5/8 iff
\* t < 0.470, >= 3/8 iff t < 0.981, >= 1/8 iff t < 2.079)
ExpNegFix(t) ==
    LET lt(m) == t.n * 1000 < m * t.d
        level == IF lt(134) THEN 4
                 ELSE IF lt(470) THEN 3
                 ELSE IF lt(981) THEN 2
                 ELSE IF lt(2079) THEN 1
                 ELSE 0
    IN  RDiv(level * FixQ, 4)
\* floor of the square root of n >= 0, by bisection of lo..hi
\* (lo * lo <= n < (hi + 1) * (hi + 1))
RECURSIVE SqrtIn(_, _, _)
SqrtIn(n, lo, hi) ==
    IF lo = hi THEN lo
    ELSE LET m == (lo + hi + 1) \div 2
         IN  IF m * m <= n THEN SqrtIn(n, m, hi) ELSE SqrtIn(n, lo, m - 1)
ISqrt(n) == SqrtIn(n, 0, Min(n, 46340))
\* std::exp(z) for a small fixed-point complex z: the Taylor polynomial
\* 1 + z + z^2/2 + z^3/6 evaluated in fixed point
CExpFix(z) ==
    IF z.nf THEN CNaN
    ELSE LET z2 == CMulFix(z, z)
             z3 == CMulFix(z2, z)
         IN  Cx(FixQ + z.re + RDiv(z2.re, 2) + RDiv(z3.re, 6),
                z.im + RDiv(z2.im, 2) + RDiv(z3.im, 6))
\* std::exp(I * phase) for a phase counted in quarter turns (phase = q*pi/2);
\* exact for the whole numbers of quarter turns the packets of the model give
CisQuarter(q) ==
    LET r == FracFloor(q) % 4
    IN  IF r = 0 THEN Cx(1, 0)
        ELSE IF r = 1 THEN Cx(0, 1)
        ELSE IF r = 2 THEN Cx(-1, 0)
        ELSE Cx(0, -1)

\* ------------------------------------------------------------------------
\* PotentialField::build  (src/src/sim/potential.cpp)
\* ------------------------------------------------------------------------
\* idx(i, j, Nx)
idx(i, j, Nx) == j * Nx + i
Clamp(lo, hi, v) == Max(lo, Min(hi, v))

\* an index rectangle whose corners are ordered but not clamped to the grid
BoxRect_NoClamp(b, Nx, Ny) ==
    LET ix0 == FracFloor(FracMul(b.x0, FracInt(Nx)))
        ix1 == FracFloor(FracMul(b.x1, FracInt(Nx)))
        iy0 == FracFloor(FracMul(b.y0, FracInt(Ny)))
        iy1 == FracFloor(FracMul(b.y1, FracInt(Ny)))
    IN  [ix0 |-> IF ix1 < ix0 THEN ix1 ELSE ix0,
         ix1 |-> IF ix1 < ix0 THEN ix0 ELSE ix1,
         iy0 |-> IF iy1 < iy0 THEN iy1 ELSE iy0,
         iy1 |-> IF iy1 < iy0 THEN iy0 ELSE iy1]

\* the inclusive index rectangle of a box: [ix0, ix1, iy0, iy1]
BoxRect(b, Nx, Ny) ==
    LET ix0 == Clamp(0, Nx - 1, FracFloor(FracMul(b.x0, FracInt(Nx))))
        ix1 == Clamp(0, Nx - 1, FracFloor(FracMul(b.x1, FracInt(Nx))))
        iy0 == Clamp(0, Ny - 1, FracFloor(FracMul(b.y0, FracInt(Ny))))
        iy1 == Clamp(0, Ny - 1, FracFloor(FracMul(b.y1, FracInt(Ny))))
    IN  [ix0 |-> IF ix1 < ix0 THEN ix1 ELSE ix0,
         ix1 |-> IF ix1 < ix0 THEN ix0 ELSE ix1,
         iy0 |-> IF iy1 < iy0 THEN iy1 ELSE iy0,
         iy1 |-> IF iy1 < iy0 THEN iy0 ELSE iy1]

\* a box that leaves out the last column and the last row of its rectangle
BoxContribution_HalfOpen(height, r, i, j) ==
    IF r.ix0 <= i /\ i < r.ix1 /\ r.iy0 <= j /\ j < r.iy1 THEN height ELSE 0

\* what a box of height and index rectangle r adds to the real part of
\* cell (i, j)
BoxContribution(height, r, i, j) ==
    IF r.ix0 <= i /\ i <= r.ix1 /\ r.iy0 <= j /\ j <= r.iy1 THEN height ELSE 0

\* what build computes once per radial well: r0 * r0, and per column and per
\* row the squared offset of the cell centre from the well's centre
WellGeometry(w, pf) ==
    LET r0 == FracMax(Frac(1, 10000), FracMul(w.radius, FracMin(pf.Lx, pf.Ly)))
        cx == FracMul(w.cx, pf.Lx)
        cy == FracMul(w.cy, pf.Ly)
        hx == FracDiv(pf.Lx, FracInt(pf.Nx))
        hy == FracDiv(pf.Ly, FracInt(pf.Ny))
        sq(f) == FracMul(f, f)
    IN  [r0sq |-> FracMul(r0, r0),
         dx2 |-> Array([i \in 0..(pf.Nx - 1) |->
                    sq(FracSub(FracMul(Frac(2 * i + 1, 2), hx), cx))]),
         dy2 |-> Array([j \in 0..(pf.Ny - 1) |->
                    sq(FracSub(FracMul(Frac(2 * j + 1, 2), hy), cy))])]

\* what one radial well of geometry g adds to the real part of cell (i, j)
WellContribution(w, g, i, j) ==
    LET r2 == FracAdd(g.dx2[i], g.dy2[j])
        sum == FracAdd(r2, g.r0sq)
    IN  CASE w.profile = "Gaussian" ->
               RDiv(w.strength * ExpNegFix(FracDiv(r2, g.r0sq)), FixQ)
          [] w.profile = "SoftCoulomb" ->
               RDiv(w.strength * FixQ, ISqrt(RDiv(sum.n * FixQ * FixQ, sum.d)))
          [] w.profile = "InverseSquare" ->
               RDiv(w.strength * sum.d, sum.n)

\* the sponge band widths wx, wy
CapWidth(cap_ratio, N) == Max(1, FracRound(FracMul(cap_ratio, FracInt(N))))

\* the boundary proximity of index i along an axis of N cells, as a fraction
CapProximity(i, N, w) ==
    IF i < w THEN Frac(w - i, w)
    ELSE IF i >= N - w THEN Frac(i - (N - w - 1), w)
    ELSE FracInt(0)

\* the absorption the sponge subtracts from the imaginary part of a cell
\* whose boundary proximities along x and y are sx and sy
CapAbsorb(cap_strength, sx, sy) ==
    LET s == FracMax(sx, sy)
        ramp == FracMul(FracMul(s, s), FracSub(FracInt(3), FracMul(FracInt(2), s)))
    IN  IF FracLess(FracInt(0), s)
        THEN RDiv(cap_strength * ramp.n * ramp.n, ramp.d * ramp.d)
        ELSE 0

\* the sum over boxes n..Len(boxes) of what each adds to cell (i, j)
RECURSIVE SumBoxes(_, _, _, _, _)
SumBoxes(boxes, rects, n, i, j) ==
    IF n > Len(boxes) THEN 0
    ELSE BoxContribution(boxes[n].height, rects[n], i, j)
         + SumBoxes(boxes, rects, n + 1, i, j)

\* the sum over wells n..Len(wells) of what each adds to cell (i, j)
RECURSIVE SumWells(_, _, _, _, _)
SumWells(wells, geoms, n, i, j) ==
    IF n > Len(wells) THEN 0
    ELSE WellContribution(wells[n], geoms[n], i, j)
         + SumWells(wells, geoms, n + 1, i, j)

\* PotentialField::build: V as a function of the cell index
build(pf) ==
    LET rects == Array([n \in 1..Len(pf.boxes) |-> BoxRect(pf.boxes[n], pf.Nx, pf.Ny)])
        geoms == Array([n \in 1..Len(pf.wells) |-> WellGeometry(pf.wells[n], pf)])
        wx == CapWidth(pf.cap_ratio, pf.Nx)
        wy == CapWidth(pf.cap_ratio, pf.Ny)
        sx == Array([i \in 0..(pf.Nx - 1) |-> CapProximity(i, pf.Nx, wx)])
        sy == Array([j \in 0..(pf.Ny - 1) |-> CapProximity(j, pf.Ny, wy)])
    IN  Array([k \in 0..(pf.Nx * pf.Ny - 1) |->
            LET i == k % pf.Nx
                j == k \div pf.Nx
            IN  Cx(SumBoxes(pf.boxes, rects, 1, i, j) + SumWells(pf.wells, geoms, 1, i, j),
                   -CapAbsorb(pf.cap_strength, sx[i], sy[j]))])

\* ------------------------------------------------------------------------
\* solve_tridiagonal  (src/src/sim/tridiag.hpp)
\* ------------------------------------------------------------------------
RECURSIVE TriForward(_, _, _, _, _, _)
TriForward(a, b, c, d, i, n) ==
    IF i >= n THEN [b |-> b, d |-> d]
    ELSE LET w == CDivFix(a[i], b[i - 1])
         IN  TriForward(a,
                        [b EXCEPT ![i] = CSub(b[i], CMulFix(w, c[i - 1]))],
                        c,
                        [d EXCEPT ![i] = CSub(d[i], CMulFix(w, d[i - 1]))],
                        i + 1, n)

RECURSIVE TriBackward(_, _, _, _)
TriBackward(b, c, d, i) ==
    IF i < 0 THEN d
    ELSE TriBackward(b, c,
                     [d EXCEPT ![i] = CDivFix(CSub(d[i], CMulFix(c[i], d[i + 1])), b[i])],
                     i - 1)

\* a solve_tridiagonal that starts the back substitution without dividing the
\* last entry by its pivot
solve_tridiagonal_SkipsLastPivot(a, b, c, d, n) ==
    LET f == TriForward(a, b, c, d, 1, n)
    IN  [b |-> f.b, d |-> TriBackward(f.b, c, f.d, n - 2)]

\* the contents of b and d when solve_tridiagonal returns (a, c are not written)
solve_tridiagonal(a, b, c, d, n) ==
    LET f == TriForward(a, b, c, d, 1, n)
        dl == [f.d EXCEPT ![n - 1] = CDivFix(f.d[n - 1], f.b[n - 1])]
    IN  [b |-> f.b, d |-> TriBackward(f.b, c, dl, n - 2)]

\* ------------------------------------------------------------------------
\* CrankNicolsonADI::step  (src/src/sim/solver.cpp)
\* ------------------------------------------------------------------------
\* -I * z
CMulNegI(z) == IF z.nf THEN CNaN ELSE Cx(z.im, -z.re)
\* I * z
CMulI(z) == IF z.nf THEN CNaN ELSE Cx(-z.im, z.re)
\* z times a real fraction f
CMulFrac(f, z) == IF z.nf THEN CNaN ELSE Cx(RDiv(z.re * f.n, f.d), RDiv(z.im * f.n, f.d))

\* potential half-step: psi <- exp(-i V dt/2) psi
PotentialKick(psi, V, dt) ==
    LET half_dt == FracMul(Frac(1, 2), dt)
    IN  Array([k \in DOMAIN psi |->
            CMulFix(CExpFix(CMulFrac(half_dt, CMulNegI(V[k]))), psi[k])])

\* the tridiagonal coefficients of (I - alpha D) along an axis of n cells
TriCoeffs(ax, n) ==
    [a |-> Array([i \in 0..(n - 1) |-> IF i = 0 THEN CZero ELSE Cx(-ax.re, -ax.im)]),
     b |-> Array([i \in 0..(n - 1) |-> Cx(FixQ + 2 * ax.re, 2 * ax.im)]),
     c |-> Array([i \in 0..(n - 1) |-> IF i = n - 1 THEN CZero ELSE Cx(-ax.re, -ax.im)])]

\* 1) solve along x: (I - alpha D_x) phi = (I + alpha D_y) psi
SweepX(psi, Nx, Ny, dx, dy, dt) ==
    LET alpha == FracMul(dt, Frac(1, 4))
        ax == Cx(0, FracFix(FracDiv(alpha, FracMul(dx, dx))))
        ry == FracDiv(alpha, FracMul(dy, dy))
        co == TriCoeffs(ax, Nx)
        rhs(j) == Array([i \in 0..(Nx - 1) |->
                    LET center == psi[idx(i, j, Nx)]
                        up == IF j > 0 THEN psi[idx(i, j - 1, Nx)] ELSE CZero
                        dn == IF j < Ny - 1 THEN psi[idx(i, j + 1, Nx)] ELSE CZero
                        lap == CAdd(CSub(up, CScale(2, center)), dn)
                    IN  CAdd(center, CMulI(CMulFrac(ry, lap)))])
        row == Array([j \in 0..(Ny - 1) |->
                        solve_tridiagonal(co.a, co.b, co.c, rhs(j), Nx).d])
    IN  Array([k \in 0..(Nx * Ny - 1) |-> row[k \div Nx][k % Nx]])

\* 2) solve along y: (I - alpha D_y) psi_new = (I + alpha D_x) phi
SweepY(phi, Nx, Ny, dx, dy, dt) ==
    LET alpha == FracMul(dt, Frac(1, 4))
        ay == Cx(0, FracFix(FracDiv(alpha, FracMul(dy, dy))))
        rx == FracDiv(alpha, FracMul(dx, dx))
        co == TriCoeffs(ay, Ny)
        rhs(i) == Array([j \in 0..(Ny - 1) |->
                    LET center == phi[idx(i, j, Nx)]
                        lf == IF i > 0 THEN phi[idx(i - 1, j, Nx)] ELSE CZero
                        rt == IF i < Nx - 1 THEN phi[idx(i + 1, j, Nx)] ELSE CZero
                        lap == CAdd(CSub(lf, CScale(2, center)), rt)
                    IN  CAdd(center, CMulI(CMulFrac(rx, lap)))])
        col == Array([i \in 0..(Nx - 1) |->
                        solve_tridiagonal(co.a, co.b, co.c, rhs(i), Ny).d])
    IN  Array([k \in 0..(Nx * Ny - 1) |-> col[k % Nx][k \div Nx]])

\* one time step in place: half-kick, x-sweep, y-sweep, half-kick
CrankNicolsonADI_step(psi, Nx, Ny, dx, dy, dt, V) ==
    LET k1 == PotentialKick(psi, V, dt)
        phi == SweepX(k1, Nx, Ny, dx, dy, dt)
        p2 == SweepY(phi, Nx, Ny, dx, dy, dt)
    IN  PotentialKick(p2, V, dt)

\* ------------------------------------------------------------------------
\* Simulation  (src/src/sim/simulation.cpp); a Simulation is a record s
\* ------------------------------------------------------------------------
\* StabilityDiagnostics{}
DefaultDiagnostics ==
    [initial_mass |-> Num(0), current_mass |-> Num(0),
     initial_interior_mass |-> Num(0), current_interior_mass |-> Num(0),
     left_mass |-> Num(0), right_mass |-> Num(0),
     rel_mass_drift |-> RatioZero, rel_interior_mass_drift |-> RatioZero,
     steps_since_baseline |-> 0, has_non_finite |-> FALSE,
     unstable |-> FALSE, reason |-> ""]

\* the interior rectangle [i0, i1) x [j0, j1) that excludes the sponge band
InteriorRect(s) ==
    LET wx == Max(1, FracRound(FracMul(s.pfield.cap_ratio, FracInt(s.Nx))))
        wy == Max(1, FracRound(FracMul(s.pfield.cap_ratio, FracInt(s.Ny))))
        i0 == wx
        i1 == s.Nx - wx
        j0 == wy
        j1 == s.Ny - wy
    IN  IF i1 <= i0 \/ j1 <= j0
        THEN [i0 |-> 0, i1 |-> s.Nx, j0 |-> 0, j1 |-> s.Ny]
        ELSE [i0 |-> i0, i1 |-> i1, j0 |-> j0, j1 |-> j1]

\* std::norm(z) * dx * dy in mass units
CellMass(s, k) ==
    LET z == s.psi[k]
    IN  IF z.nf THEN NaN
        ELSE Num(((z.re * z.re + z.im * z.im) * MassDen * s.dx.n * s.dy.n)
                 \div (s.dx.d * s.dy.d))

\* the four sums of the single pass over cells lo..hi-1: every cell counts for
\* the total, the cells of the interior rectangle r for the interior mass,
\* the columns i < mid for the left mass and the others for the right mass
\* (the range is split in halves to keep the evaluation shallow)
RECURSIVE Accumulate(_, _, _, _, _)
Accumulate(s, r, mid, lo, hi) ==
    IF hi = lo + 1
    THEN LET i == lo % s.Nx
             j == lo \div s.Nx
             m == CellMass(s, lo)
             insideY == j >= r.j0 /\ j < r.j1
         IN  [total |-> m,
              interior |-> IF insideY /\ i >= r.i0 /\ i < r.i1 THEN m ELSE Num(0),
              left |-> IF i < mid THEN m ELSE Num(0),
              right |-> IF i < mid THEN Num(0) ELSE m]
    ELSE LET h == (lo + hi) \div 2
             x == Accumulate(s, r, mid, lo, h)
             y == Accumulate(s, r, mid, h, hi)
         IN  [total |-> NumAdd(x.total, y.total),
              interior |-> NumAdd(x.interior, y.interior),
              left |-> NumAdd(x.left, y.left),
              right |-> NumAdd(x.right, y.right)]

\* finite = finite && is_finite_complex(z) over every cell
AllFinite(psi) == \A k \in DOMAIN psi : is_finite_complex(psi[k])

\* fabs(cur - init) / max(1e-15, init)
RelDrift(cur, init) ==
    IF cur.nf \/ init.nf THEN RatioNaN
    ELSE Ratio(Abs(cur.v - init.v), NumMaxConst(MassFloor, init))

\* current_mass > initial_mass * (1.0 + totalTol)
ExceedsAllowed(cur, init, totalTol) ==
    ~cur.nf /\ ~init.nf /\ cur.v * totalTol.d > init.v * (totalTol.d + totalTol.n)

\* the drift decision with the interior test ahead of the total-mass test
DriftVerdict_InteriorFirst(d, pfield, stability) ==
    LET capEnabled == pfield.cap_strength > 0 /\ FracLess(FracInt(0), pfield.cap_ratio)
        totalTol == FracMax(FracInt(0), stability.rel_mass_drift_tol)
        interiorTol == FracMax(FracInt(0), stability.rel_interior_mass_drift_tol)
        flag(r) == [d EXCEPT !.unstable = TRUE, !.reason = r]
    IN  IF RatioGt(d.rel_interior_mass_drift, interiorTol)
        THEN flag("interior mass drift exceeded tolerance")
        ELSE IF capEnabled
        THEN (IF ExceedsAllowed(d.current_mass, d.initial_mass, totalTol)
              THEN flag("total mass grew unexpectedly with CAP") ELSE d)
        ELSE (IF RatioGt(d.rel_mass_drift, totalTol)
              THEN flag("mass drift exceeded tolerance") ELSE d)

\* the drift decision of update_diagnostics, after the non-finite check and
\* the warm-up gate: lines 208-236
DriftVerdict(d, pfield, stability) ==
    LET capEnabled == pfield.cap_strength > 0 /\ FracLess(FracInt(0), pfield.cap_ratio)
        totalTol == FracMax(FracInt(0), stability.rel_mass_drift_tol)
        interiorTol == FracMax(FracInt(0), stability.rel_interior_mass_drift_tol)
        flag(r) == [d EXCEPT !.unstable = TRUE, !.reason = r]
    IN  IF capEnabled
        THEN IF ExceedsAllowed(d.current_mass, d.initial_mass, totalTol)
             THEN flag("total mass grew unexpectedly with CAP")
             ELSE IF RatioGt(d.rel_interior_mass_drift, interiorTol)
             THEN flag("interior mass drift exceeded tolerance")
             ELSE d
        ELSE IF RatioGt(d.rel_mass_drift, totalTol)
             THEN flag("mass drift exceeded tolerance")
             ELSE IF RatioGt(d.rel_interior_mass_drift, interiorTol)
             THEN flag("interior mass drift exceeded tolerance")
             ELSE d

\* Verdict without the early return on a flag that is already set
Verdict_Reflagging(d, finite, pfield, stability) ==
    IF ~finite THEN [d EXCEPT !.unstable = TRUE, !.reason = "psi contains NaN/Inf"]
    ELSE IF d.steps_since_baseline <= Max(0, stability.warmup_steps)
    THEN [d EXCEPT !.unstable = FALSE]
    ELSE DriftVerdict([d EXCEPT !.unstable = FALSE], pfield, stability)

\* Verdict with a warm-up gate that opens one step early
Verdict_GateOpensEarly(d, finite, pfield, stability) ==
    IF d.unstable THEN d
    ELSE IF ~finite THEN [d EXCEPT !.unstable = TRUE, !.reason = "psi contains NaN/Inf"]
    ELSE IF d.steps_since_baseline < Max(0, stability.warmup_steps) THEN d
    ELSE DriftVerdict(d, pfield, stability)

\* Verdict with the warm-up gate ahead of the non-finite check
Verdict_GateFirst(d, finite, pfield, stability) ==
    IF d.unstable THEN d
    ELSE IF d.steps_since_baseline <= Max(0, stability.warmup_steps) THEN d
    ELSE IF ~finite THEN [d EXCEPT !.unstable = TRUE, !.reason = "psi contains NaN/Inf"]
    ELSE DriftVerdict(d, pfield, stability)

\* the (unstable, reason) decision of update_diagnostics once the counters
\* are updated: lines 192-236
Verdict(d, finite, pfield, stability) ==
    IF d.unstable THEN d
    ELSE IF ~finite THEN [d EXCEPT !.unstable = TRUE, !.reason = "psi contains NaN/Inf"]
    ELSE IF d.steps_since_baseline <= Max(0, stability.warmup_steps) THEN d
    ELSE DriftVerdict(d, pfield, stability)

\* an update whose right total counts every cell
update_diagnostics_RightCountsAll(s, is_time_step) ==
    LET sums == Accumulate(s, InteriorRect(s), s.Nx \div 2, 0, s.Nx * s.Ny)
        finite == AllFinite(s.psi)
        d0 == s.diagnostics
        d1 == [d0 EXCEPT
                 !.current_mass = sums.total,
                 !.current_interior_mass = sums.interior,
                 !.left_mass = sums.left,
                 !.right_mass = sums.total,
                 !.has_non_finite = ~finite,
                 !.rel_mass_drift = RelDrift(sums.total, d0.initial_mass),
                 !.rel_interior_mass_drift =
                     RelDrift(sums.interior, d0.initial_interior_mass),
                 !.steps_since_baseline =
                     IF is_time_step THEN d0.steps_since_baseline + 1
                     ELSE d0.steps_since_baseline]
    IN  [s EXCEPT !.diagnostics = Verdict(d1, finite, s.pfield, s.stability)]

\* an update that stops counting time steps once unstable is set
update_diagnostics_StopsCountingWhenFlagged(s, is_time_step) ==
    LET sums == Accumulate(s, InteriorRect(s), s.Nx \div 2, 0, s.Nx * s.Ny)
        finite == AllFinite(s.psi)
        d0 == s.diagnostics
        d1 == [d0 EXCEPT
                 !.current_mass = sums.total,
                 !.current_interior_mass = sums.interior,
                 !.left_mass = sums.left,
                 !.right_mass = sums.right,
                 !.has_non_finite = ~finite,
                 !.rel_mass_drift = RelDrift(sums.total, d0.initial_mass),
                 !.rel_interior_mass_drift =
                     RelDrift(sums.interior, d0.initial_interior_mass),
                 !.steps_since_baseline =
                     IF is_time_step /\ ~d0.unstable THEN d0.steps_since_baseline + 1
                     ELSE d0.steps_since_baseline]
    IN  [s EXCEPT !.diagnostics = Verdict(d1, finite, s.pfield, s.stability)]

\* Simulation::update_diagnostics
update_diagnostics(s, is_time_step) ==
    LET sums == Accumulate(s, InteriorRect(s), s.Nx \div 2, 0, s.Nx * s.Ny)
        finite == AllFinite(s.psi)
        d0 == s.diagnostics
        d1 == [d0 EXCEPT
                 !.current_mass = sums.total,
                 !.current_interior_mass = sums.interior,
                 !.left_mass = sums.left,
                 !.right_mass = sums.right,
                 !.has_non_finite = ~finite,
                 !.rel_mass_drift = RelDrift(sums.total, d0.initial_mass),
                 !.rel_interior_mass_drift =
                     RelDrift(sums.interior, d0.initial_interior_mass),
                 !.steps_since_baseline =
                     IF is_time_step THEN d0.steps_since_baseline + 1
                     ELSE d0.steps_since_baseline]
    IN  [s EXCEPT !.diagnostics = Verdict(d1, finite, s.pfield, s.stability)]

\* a re-baselining that recaptures the masses but keeps the flag, the reason
\* and the step counter
refresh_diagnostics_baseline_KeepsFlag(s) ==
    LET u == update_diagnostics(s, FALSE)
        d == u.diagnostics
    IN  [u EXCEPT !.diagnostics =
            [d EXCEPT !.initial_mass = d.current_mass,
                      !.initial_interior_mass = d.current_interior_mass,
                      !.rel_mass_drift = RatioZero,
                      !.rel_interior_mass_drift = RatioZero]]

\* Simulation::refresh_diagnostics_baseline
refresh_diagnostics_baseline(s) ==
    LET u == update_diagnostics([s EXCEPT !.diagnostics = DefaultDiagnostics], FALSE)
        d == u.diagnostics
    IN  [u EXCEPT !.diagnostics =
            [d EXCEPT !.initial_mass = d.current_mass,
                      !.initial_interior_mass = d.current_interior_mass,
                      !.rel_mass_drift = RatioZero,
                      !.rel_interior_mass_drift = RatioZero,
                      !.steps_since_baseline = 0,
                      !.unstable = FALSE,
                      !.reason = ""]]

\* what injectGaussian computes per axis for a packet of centre c (physical
\* units), width sig and wave number k on an axis of n cells of size h:
\* the offset x - c of every cell centre, its square over sig^2 (dxc * dxc)
\* and its phase k * (x - c).  sig_base = std::max(1e-12, sig): a width at the
\* floor leaves exponent 0 at the centre and lets exp underflow to 0 elsewhere.
PacketAxis(c, sig, k, n, h) ==
    Array([i \in 0..(n - 1) |->
        LET off == FracSub(FracMul(Frac(2 * i + 1, 2), h), c)
            q == IF FracLess(FracInt(0), sig) THEN FracDiv(off, sig) ELSE FracInt(0)
        IN  [off |-> off, sq |-> FracMul(q, q), phase |-> FracMul(k, off)]])

\* the Gaussian contribution w of packet p to the cell whose axis data are
\* ax (column) and ay (row)
PacketContribution(p, floored, ax, ay) ==
    LET g == IF floored
             THEN (IF ax.off.n = 0 /\ ay.off.n = 0 THEN FixQ ELSE 0)
             ELSE ExpNegFix(FracMul(Frac(1, 2), FracAdd(ax.sq, ay.sq)))
    IN  IF p.amplitude.nf THEN CNaN
        ELSE CMulFix(Cx(g, 0),
                     CScale(p.amplitude.v, CisQuarter(FracAdd(ax.phase, ay.phase))))

\* an injection that ends in refresh_diagnostics_baseline
injectGaussian_Rebaselines(s, p) ==
    LET sig == FracMul(p.sigma, FracMin(s.Lx, s.Ly))
        floored == ~FracLess(FracInt(0), sig)
        xs == PacketAxis(FracMul(p.cx, s.Lx), sig, p.kx, s.Nx, s.dx)
        ys == PacketAxis(FracMul(p.cy, s.Ly), sig, p.ky, s.Ny, s.dy)
    IN  refresh_diagnostics_baseline(
            [s EXCEPT !.psi = Array([k \in DOMAIN s.psi |->
                CAdd(s.psi[k],
                     PacketContribution(p, floored, xs[k % s.Nx], ys[k \div s.Nx]))])])

\* an injection that also retains the packet
injectGaussian_RetainsPacket(s, p) ==
    LET sig == FracMul(p.sigma, FracMin(s.Lx, s.Ly))
        floored == ~FracLess(FracInt(0), sig)
        xs == PacketAxis(FracMul(p.cx, s.Lx), sig, p.kx, s.Nx, s.dx)
        ys == PacketAxis(FracMul(p.cy, s.Ly), sig, p.ky, s.Ny, s.dy)
    IN  update_diagnostics(
            [s EXCEPT !.psi = Array([k \in DOMAIN s.psi |->
                CAdd(s.psi[k],
                     PacketContribution(p, floored, xs[k % s.Nx], ys[k \div s.Nx]))]),
                      !.packets = Append(@, p)],
            FALSE)

\* an injection that pauses playback when its update flags an instability
injectGaussian_PausesWhenFlagged(s, p) ==
    LET sig == FracMul(p.sigma, FracMin(s.Lx, s.Ly))
        floored == ~FracLess(FracInt(0), sig)
        xs == PacketAxis(FracMul(p.cx, s.Lx), sig, p.kx, s.Nx, s.dx)
        ys == PacketAxis(FracMul(p.cy, s.Ly), sig, p.ky, s.Ny, s.dy)
        u == update_diagnostics(
                [s EXCEPT !.psi = Array([k \in DOMAIN s.psi |->
                    CAdd(s.psi[k],
                         PacketContribution(p, floored, xs[k % s.Nx], ys[k \div s.Nx]))])],
                FALSE)
    IN  IF u.diagnostics.unstable /\ u.stability.auto_pause_on_instability
        THEN [u EXCEPT !.running = FALSE]
        ELSE u

\* Simulation::injectGaussian
injectGaussian(s, p) ==
    LET sig == FracMul(p.sigma, FracMin(s.Lx, s.Ly))
        floored == ~FracLess(FracInt(0), sig)
        xs == PacketAxis(FracMul(p.cx, s.Lx), sig, p.kx, s.Nx, s.dx)
        ys == PacketAxis(FracMul(p.cy, s.Ly), sig, p.ky, s.Ny, s.dy)
    IN  update_diagnostics(
            [s EXCEPT !.psi = Array([k \in DOMAIN s.psi |->
                CAdd(s.psi[k],
                     PacketContribution(p, floored, xs[k % s.Nx], ys[k \div s.Nx]))])],
            FALSE)

RECURSIVE InjectAll(_, _)
InjectAll(s, ps) ==
    IF ps = <<>> THEN s ELSE InjectAll(injectGaussian(s, Head(ps)), Tail(ps))

\* Simulation::clearPsi
clearPsi(s) == [s EXCEPT !.psi = Array([k \in DOMAIN s.psi |-> CZero])]

\* pfield.Nx = Nx; ...; pfield.build(V)
SyncAndBuild(s) ==
    LET pf == [s.pfield EXCEPT !.Nx = s.Nx, !.Ny = s.Ny, !.Lx = s.Lx, !.Ly = s.Ly]
    IN  [s EXCEPT !.pfield = pf, !.V = build(pf)]

\* a reset that consumes the packets it re-synthesises psi from
reset_ConsumesPackets(s) ==
    [refresh_diagnostics_baseline(InjectAll(SyncAndBuild(clearPsi(s)), s.packets))
        EXCEPT !.packets = <<>>]

\* a reset that adds the packets to the psi it finds
reset_KeepsPsi(s) ==
    refresh_diagnostics_baseline(InjectAll(SyncAndBuild(s), s.packets))

\* Simulation::reset
reset(s) ==
    refresh_diagnostics_baseline(InjectAll(SyncAndBuild(clearPsi(s)), s.packets))

\* a resize whose cells are 1/Nx wide and 1/Ny high
resize_PerAxisCell(s, newNx, newNy) ==
    LET Nx == Max(MinGrid, newNx)
        Ny == Max(MinGrid, newNy)
    IN  reset(SyncAndBuild(
            [s EXCEPT !.Nx = Nx, !.Ny = Ny,
                      !.Lx = FracInt(1), !.Ly = FracInt(1),
                      !.dx = Frac(1, Nx), !.dy = Frac(1, Ny),
                      !.psi = Array([k \in 0..(Nx * Ny - 1) |-> CZero])]))

\* a resize that returns at once when the dimensions do not change
resize_NoOpOnSameDims(s, newNx, newNy) ==
    IF Max(MinGrid, newNx) = s.Nx /\ Max(MinGrid, newNy) = s.Ny /\ DOMAIN s.psi # {}
    THEN s
    ELSE LET Nx == Max(MinGrid, newNx)
             Ny == Max(MinGrid, newNy)
             cell == Frac(1, Max(MinGrid, Min(Nx, Ny)))
         IN  reset(SyncAndBuild(
                 [s EXCEPT !.Nx = Nx, !.Ny = Ny,
                           !.Lx = FracMul(FracInt(Nx), cell),
                           !.Ly = FracMul(FracInt(Ny), cell),
                           !.dx = cell, !.dy = cell,
                           !.psi = Array([k \in 0..(Nx * Ny - 1) |-> CZero])]))

\* Simulation::resize
resize(s, newNx, newNy) ==
    LET Nx == Max(MinGrid, newNx)
        Ny == Max(MinGrid, newNy)
        minDim == Max(MinGrid, Min(Nx, Ny))
        cell == Frac(1, minDim)
    IN  reset(SyncAndBuild(
            [s EXCEPT !.Nx = Nx, !.Ny = Ny,
                      !.Lx = FracMul(FracInt(Nx), cell),
                      !.Ly = FracMul(FracInt(Ny), cell),
                      !.dx = cell, !.dy = cell,
                      !.psi = Array([k \in 0..(Nx * Ny - 1) |-> CZero])]))

\* Simulation::addBox
addBox(s, b) ==
    LET pf == [s.pfield EXCEPT !.boxes = Append(@, b)]
    IN  update_diagnostics([s EXCEPT !.pfield = pf, !.V = build(pf)], FALSE)

\* an addWell that records the well and leaves V as it was
addWell_NoRebuild(s, w) ==
    LET pf == [s.pfield EXCEPT !.wells = Append(@, w)]
    IN  update_diagnostics([s EXCEPT !.pfield = pf], FALSE)

\* Simulation::addWell
addWell(s, w) ==
    LET pf == [s.pfield EXCEPT !.wells = Append(@, w)]
    IN  update_diagnostics([s EXCEPT !.pfield = pf, !.V = build(pf)], FALSE)

\* a step that updates the diagnostics before it advances psi
step_UpdatesFirst(s) ==
    LET u == update_diagnostics(s, TRUE)
        r == [u EXCEPT !.psi = CrankNicolsonADI_step(s.psi, s.Nx, s.Ny,
                                                     s.dx, s.dy, s.dt, s.V)]
    IN  IF r.diagnostics.unstable /\ r.stability.auto_pause_on_instability
        THEN [r EXCEPT !.running = FALSE]
        ELSE r

\* a step that pauses only when it is the step that sets the flag
step_PauseOnFirstFlag(s) ==
    LET u == update_diagnostics(
                [s EXCEPT !.psi = CrankNicolsonADI_step(s.psi, s.Nx, s.Ny,
                                                        s.dx, s.dy, s.dt, s.V)],
                TRUE)
    IN  IF ~s.diagnostics.unstable /\ u.diagnostics.unstable
           /\ u.stability.auto_pause_on_instability
        THEN [u EXCEPT !.running = FALSE]
        ELSE u

\* Simulation::step
step(s) ==
    LET u == update_diagnostics(
                [s EXCEPT !.psi = CrankNicolsonADI_step(s.psi, s.Nx, s.Ny,
                                                        s.dx, s.dy, s.dt, s.V)],
                TRUE)
    IN  IF u.diagnostics.unstable /\ u.stability.auto_pause_on_instability
        THEN [u EXCEPT !.running = FALSE]
        ELSE u

\* a batch that ends when a step inside it clears running
RECURSIVE stepN_CutShort(_, _)
stepN_CutShort(s, n) ==
    IF n <= 0 THEN s
    ELSE LET u == step(s)
         IN  IF s.running /\ ~u.running THEN u ELSE stepN_CutShort(u, n - 1)

\* Simulation::stepN
RECURSIVE stepN(_, _)
stepN(s, n) == IF n <= 0 THEN s ELSE stepN(step(s), n - 1)

\* Simulation::mass: (sum of std::norm(z)) * dx * dy
mass(s) ==
    LET unit == [s EXCEPT !.dx = FracInt(1), !.dy = FracInt(1)]
        sum == Accumulate(unit, InteriorRect(s), 0, 0, s.Nx * s.Ny).total
    IN  IF sum.nf THEN NaN
        ELSE Num((sum.v * s.dx.n * s.dy.n) \div (s.dx.d * s.dy.d))

\* Simulation::mass_split: the out-parameters left and right
mass_split(s) ==
    [left |-> s.diagnostics.left_mass, right |-> s.diagnostics.right_mass]

\* the sum of std::norm(psi[idx(i, j)]) over the columns i..i1-1 of row j
RECURSIVE RowNorm(_, _, _, _)
RowNorm(s, j, i, i1) ==
    IF i >= i1 THEN Num(0)
    ELSE NumAdd(CNorm(s.psi[idx(i, j, s.Nx)]), RowNorm(s, j, i + 1, i1))

\* the sum of the row sums over the rows j..j1-1
RECURSIVE RectNorm(_, _, _, _, _)
RectNorm(s, i0, i1, j, j1) ==
    IF j >= j1 THEN Num(0)
    ELSE NumAdd(RowNorm(s, j, i0, i1), RectNorm(s, i0, i1, j + 1, j1))

\* the rectangle [i0, i1) x [j0, j1) interior_mass sums over
InteriorMassRect(s) ==
    LET wx == Max(1, FracRound(FracMul(s.pfield.cap_ratio, FracInt(s.Nx))))
        wy == Max(1, FracRound(FracMul(s.pfield.cap_ratio, FracInt(s.Ny))))
        whole == (s.Nx - wx <= wx) \/ (s.Ny - wy <= wy)
    IN  [i0 |-> IF whole THEN 0 ELSE wx,
         i1 |-> IF whole THEN s.Nx ELSE s.Nx - wx,
         j0 |-> IF whole THEN 0 ELSE wy,
         j1 |-> IF whole THEN s.Ny ELSE s.Ny - wy]

\* an interior_mass that falls back to the whole grid only when a side of
\* the rectangle is negative
interior_mass_NoFallbackWhenEmpty(s) ==
    LET wx == Max(1, FracRound(FracMul(s.pfield.cap_ratio, FracInt(s.Nx))))
        wy == Max(1, FracRound(FracMul(s.pfield.cap_ratio, FracInt(s.Ny))))
        whole == (s.Nx - wx < wx) \/ (s.Ny - wy < wy)
        sum == IF whole THEN RectNorm(s, 0, s.Nx, 0, s.Ny)
               ELSE RectNorm(s, wx, s.Nx - wx, wy, s.Ny - wy)
    IN  IF sum.nf THEN NaN
        ELSE Num((sum.v * MassDen * s.dx.n * s.dy.n) \div (s.dx.d * s.dy.d))

\* Simulation::interior_mass
interior_mass(s) ==
    LET r == InteriorMassRect(s)
        sum == RectNorm(s, r.i0, r.i1, r.j0, r.j1)
    IN  IF sum.nf THEN NaN
        ELSE Num((sum.v * MassDen * s.dx.n * s.dy.n) \div (s.dx.d * s.dy.d))

\* an apply_eigenstate that leaves the retained packets in place
apply_eigenstate_KeepsPackets(s, state) ==
    IF Len(state.psi) # s.Nx * s.Ny THEN s
    ELSE refresh_diagnostics_baseline(
            [s EXCEPT !.psi = Array([k \in 0..(Len(state.psi) - 1) |-> state.psi[k + 1]]),
                      !.running = FALSE])

\* Simulation::apply_eigenstate; state.psi is a sequence of cells
apply_eigenstate(s, state) ==
    IF Len(state.psi) # s.Nx * s.Ny THEN s
    ELSE refresh_diagnostics_baseline(
            [s EXCEPT !.psi = Array([k \in 0..(Len(state.psi) - 1) |-> state.psi[k + 1]]),
                      !.packets = <<>>,
                      !.running = FALSE])

\* ------------------------------------------------------------------------
\* to_simulation  (src/src/io/scene.cpp)
\* ------------------------------------------------------------------------
\* to_simulation(s, dstSim): the grid, dt, the potential sources, the CAP
\* parameters and the stability configuration of the scene, a build, the
\* scene's packets and a reset
to_simulation(sc, dst) ==
    LET r == resize(dst, sc.Nx, sc.Ny)
        pf == [r.pfield EXCEPT !.boxes = sc.boxes, !.wells = sc.wells,
                               !.cap_ratio = sc.cap_ratio,
                               !.cap_strength = sc.cap_strength]
    IN  reset([r EXCEPT !.dt = sc.dt, !.pfield = pf, !.stability = sc.stability,
                        !.V = build(pf), !.packets = sc.packets])

\* ------------------------------------------------------------------------
\* Inputs of the model
\* ------------------------------------------------------------------------
\* (newNx, newNy) pairs passed to resize: both below the minimum, and one above
\* with one below (a 9 x 8 grid)
ResizeInputs == {<<-3, 0>>, <<9, 7>>}

\* Packet{cx, cy, sigma, amplitude, kx, ky}; kx, ky in quarter turns per unit
\* length, amplitude in amplitude quanta
Packet(cx, cy, sigma, amplitude, kx, ky) ==
    [cx |-> cx, cy |-> cy, sigma |-> sigma, amplitude |-> amplitude,
     kx |-> kx, ky |-> ky]
\* a packet at the centre of the domain
PacketA == Packet(Frac(1, 2), Frac(1, 2), Frac(1, 8), Num(16), FracInt(0), FracInt(0))
\* a narrow packet in the corner cell, inside the sponge band
PacketEdge == Packet(Frac(1, 16), Frac(1, 16), Frac(1, 16), Num(16), FracInt(0), FracInt(0))
\* a moving packet of opposite sign that overlaps PacketEdge
PacketB == Packet(Frac(1, 4), Frac(1, 8), Frac(1, 8), Num(-16), FracInt(4 * LcmDim), FracInt(0))
\* a packet whose amplitude is NaN
PacketNaN == Packet(Frac(1, 2), Frac(1, 2), Frac(1, 8), NaN, FracInt(0), FracInt(0))
\* the packets the caller retains in sim.packets, in the order it adds them
PacketScript == <<PacketEdge, PacketB>>
\* the packets the caller injects without retaining them
PacketInputs == {PacketA, PacketNaN}

\* Box{x0, y0, x1, y1, height}, height in fixed point
BoxInputs == {[x0 |-> Frac(5, 8), y0 |-> Frac(1, 4), x1 |-> Frac(3, 4), y1 |-> Frac(3, 4),
               height |-> 2 * FixQ]}
\* RadialWell{cx, cy, strength, radius, profile}, strength in fixed point
WellInputs == {[cx |-> Frac(1, 2), cy |-> Frac(1, 2), strength |-> -2 * FixQ,
                radius |-> Frac(1, 4), profile |-> "SoftCoulomb"]}

\* EigenState{energy, psi} of n cells
EigenState(n) ==
    [energy |-> 0, psi |-> [k \in 1..n |-> IF k = (n \div 2) THEN Cx(8, 0) ELSE CZero]]
\* eigenstates of the size of the 8 x 8 grid, of the size of the 9 x 8 grid
\* (and of an 8 x 9 one) and of a size no grid has
EigenInputs ==
    {EigenState(MinGrid * MinGrid), EigenState((MinGrid + 1) * MinGrid), EigenState(3)}

\* what the caller configures before running: CAP parameters (cap_strength in
\* fixed point) and the stability configuration
Scenario(cs, cr, tol, itol, warm, pause) ==
    [cap_strength |-> cs, cap_ratio |-> cr,
     stability |-> [rel_mass_drift_tol |-> tol,
                    rel_interior_mass_drift_tol |-> itol,
                    warmup_steps |-> warm,
                    auto_pause_on_instability |-> pause]]
\* the sponge on, the default tolerances, no warm-up, auto-pause on
ScenarioCap == Scenario(4 * FixQ, Frac(1, 4), Frac(3, 20), FracInt(1), 0, TRUE)
\* the sponge off (cap_ratio = 0), a negative tolerance, one warm-up step,
\* auto-pause off
ScenarioNoCap == Scenario(4 * FixQ, FracInt(0), Frac(-1, 10), Frac(1, 2), 1, FALSE)
\* the sponge switched off by cap_strength = 0: V is real; one warm-up step
ScenarioFree == Scenario(0, Frac(1, 8), Frac(3, 20), FracInt(2), 1, TRUE)
Scenarios == {ScenarioCap, ScenarioNoCap}

\* boxes that overlap one another: a square in the middle, a box of negative
\* height given by its corners in reverse order, and a box that sticks out of
\* the domain
SceneBoxes ==
    {[x0 |-> Frac(1, 4), y0 |-> Frac(1, 4), x1 |-> Frac(3, 4), y1 |-> Frac(3, 4),
      height |-> 2 * FixQ],
     [x0 |-> Frac(7, 8), y0 |-> Frac(1, 2), x1 |-> Frac(1, 2), y1 |-> Frac(1, 8),
      height |-> -3 * FixQ],
     [x0 |-> Frac(5, 8), y0 |-> Frac(-1, 4), x1 |-> Frac(3, 2), y1 |-> Frac(5, 8),
      height |-> 5 * FixQ]}

\* Scene{Nx, Ny, dt, cap_strength, cap_ratio, ..., boxes, wells, packets} as
\* load_scene reads it from a file: no value is range-checked
Scene(Nx, Ny, cs, cr) ==
    [Nx |-> Nx, Ny |-> Ny, dt |-> Frac(1, 32),
     cap_strength |-> cs, cap_ratio |-> cr,
     stability |-> ScenarioCap.stability,
     boxes |-> <<>>, wells |-> <<>>, packets |-> <<>>]
\* scenes on the 8 x 8 and the 9 x 8 grid: the sponge of the constructor's
\* scenario, a negative strength, bands that overlap (5/8 of the side) and
\* bands that reach past the middle of the opposite half (3/4 of the side)
SceneInputs ==
    {Scene(g[1], g[2], c[1], c[2]) :
        g \in {<<MinGrid, MinGrid>>, <<MinGrid + 1, MinGrid>>},
        c \in {<<4 * FixQ, Frac(1, 4)>>, <<-FixQ, Frac(1, 4)>>,
               <<4 * FixQ, Frac(5, 8)>>, <<4 * FixQ, Frac(3, 4)>>}}

\* tridiagonal systems of n = 1, 2 or 3 rows handed to solve_tridiagonal:
\* a diagonal of 4 or 1 + 3i, sub- and super-diagonal entries -1 or i chosen
\* per row, right-hand sides 96 or -40 + 72i chosen per row, and the unused
\* a[0] and c[n - 1] either 0 or 7 - 5i.  Every system is strictly
\* diagonally dominant.
TridiagOff == {Cx(-FixQ, 0), Cx(0, FixQ)}
TridiagUnused == {CZero, Cx(7 * FixQ, -5 * FixQ)}
TridiagSystem(n, diag, lo, up, u, rhs) ==
    [n |-> n,
     a |-> [i \in 0..(n - 1) |-> IF i = 0 THEN u ELSE lo[i]],
     b |-> [i \in 0..(n - 1) |-> diag],
     c |-> [i \in 0..(n - 1) |-> IF i = n - 1 THEN u ELSE up[i]],
     d |-> rhs]
TridiagInputs ==
    UNION {{TridiagSystem(n, diag, lo, up, u, rhs) :
                diag \in {Cx(4 * FixQ, 0), Cx(FixQ, 3 * FixQ)},
                lo \in [0..(n - 1) -> TridiagOff],
                up \in [0..(n - 1) -> TridiagOff],
                u \in TridiagUnused,
                rhs \in [0..(n - 1) -> {Cx(96, 0), Cx(-40, 72)}]} : n \in 1..3}

\* ------------------------------------------------------------------------
\* State
\* ------------------------------------------------------------------------
VARIABLES
    sim,    \* the Simulation object
    ops     \* calls that changed psi or counted a time step since psi was
            \* last re-synthesised (reset, resize, accepted apply_eigenstate)

vars == <<sim, ops>>

\* the members of Simulation before the constructor body runs, for a caller
\* configuration sc
Members(sc) ==
    [Nx |-> MinGrid, Ny |-> MinGrid,
     Lx |-> FracInt(1), Ly |-> FracInt(1),
     dx |-> Frac(1, MinGrid), dy |-> Frac(1, MinGrid),
     dt |-> Frac(1, 32),
     running |-> FALSE,
     psi |-> <<>>, V |-> <<>>,
     pfield |-> [Nx |-> MinGrid, Ny |-> MinGrid, Lx |-> FracInt(1), Ly |-> FracInt(1),
                 cap_strength |-> sc.cap_strength, cap_ratio |-> sc.cap_ratio,
                 boxes |-> <<>>, wells |-> <<>>],
     packets |-> <<>>,
     stability |-> sc.stability,
     diagnostics |-> DefaultDiagnostics]

\* Simulation::Simulation
Init ==
    /\ \E sc \in Scenarios : sim = resize(Members(sc), MinGrid, MinGrid)
    /\ ops = 0

Resize ==
    \E a \in ResizeInputs :
        /\ sim' = resize(sim, a[1], a[2])
        /\ ops' = 0

Reset ==
    /\ sim' = reset(sim)
    /\ ops' = 0

InjectGaussian ==
    \E p \in PacketInputs :
        /\ ops < MaxOps
        /\ sim' = injectGaussian(sim, p)
        /\ ops' = ops + 1

\* the caller's packets.push_back(p)
PushPacket ==
    /\ Len(sim.packets) < Len(PacketScript)
    /\ sim.packets = SubSeq(PacketScript, 1, Len(sim.packets))
    /\ sim' = [sim EXCEPT !.packets = Append(@, PacketScript[Len(@) + 1])]
    /\ UNCHANGED ops

\* the caller's packets.clear()
ClearPackets ==
    /\ sim.packets # <<>>
    /\ sim' = [sim EXCEPT !.packets = <<>>]
    /\ UNCHANGED ops

\* the scene holds at most one potential feature
AddBox ==
    \E b \in BoxInputs :
        /\ sim.pfield.boxes = <<>> /\ sim.pfield.wells = <<>>
        /\ sim' = addBox(sim, b)
        /\ UNCHANGED ops

AddWell ==
    \E w \in WellInputs :
        /\ sim.pfield.boxes = <<>> /\ sim.pfield.wells = <<>>
        /\ sim' = addWell(sim, w)
        /\ UNCHANGED ops

Step ==
    /\ ops < MaxOps
    /\ sim' = step(sim)
    /\ ops' = ops + 1

StepN ==
    \E n \in {-1, 0, 1, 2} :
        /\ ops + Max(0, n) <= MaxOps
        /\ sim' = stepN(sim, n)
        /\ ops' = ops + Max(0, n)

UpdateDiagnostics ==
    \E is_time_step \in BOOLEAN :
        /\ is_time_step => ops < MaxOps
        /\ sim' = update_diagnostics(sim, is_time_step)
        /\ ops' = IF is_time_step THEN ops + 1 ELSE ops

RefreshDiagnosticsBaseline ==
    /\ sim' = refresh_diagnostics_baseline(sim)
    /\ UNCHANGED ops

ApplyEigenstate ==
    \E e \in EigenInputs :
        /\ sim' = apply_eigenstate(sim, e)
        /\ ops' = IF Len(e.psi) = sim.Nx * sim.Ny THEN 0 ELSE ops

\* the caller's running = !running
ToggleRunning ==
    /\ sim' = [sim EXCEPT !.running = ~@]
    /\ UNCHANGED ops

\* the stability monitor on the constructor's grid
Next ==
    \/ Reset
    \/ InjectGaussian
    \/ PushPacket
    \/ Step
    \/ StepN
    \/ UpdateDiagnostics
    \/ RefreshDiagnosticsBaseline
    \/ ToggleRunning

Spec == Init /\ [][Next]_vars

\* Simulation::Simulation with the sponge on
InitGrid ==
    /\ sim = resize(Members(ScenarioCap), MinGrid, MinGrid)
    /\ ops = 0

\* the grid, the scene and the re-synthesis of psi
NextGrid ==
    \/ Resize
    \/ Reset
    \/ PushPacket
    \/ ClearPackets
    \/ AddBox
    \/ AddWell
    \/ Step
    \/ ApplyEigenstate
    \/ ToggleRunning

SpecGrid == InitGrid /\ [][NextGrid]_vars

\* load_scene followed by to_simulation
LoadScene ==
    \E sc \in SceneInputs :
        /\ sim' = to_simulation(sc, sim)
        /\ ops' = 0

\* addBox of a box the scene does not hold yet
AddSceneBox ==
    \E b \in SceneBoxes :
        /\ \A n \in 1..Len(sim.pfield.boxes) : sim.pfield.boxes[n] # b
        /\ sim' = addBox(sim, b)
        /\ UNCHANGED ops

\* addWell of the first well of the scene
AddSceneWell ==
    \E w \in WellInputs :
        /\ sim.pfield.wells = <<>>
        /\ sim' = addWell(sim, w)
        /\ UNCHANGED ops

\* the potential field of loaded scenes as boxes and a well are added
NextScene ==
    \/ LoadScene
    \/ AddSceneBox
    \/ AddSceneWell

SpecScene == InitGrid /\ [][NextScene]_vars

\* a caller's a, b, c, d before it calls solve_tridiagonal: sim holds the four
\* vectors and, as sys, the system they were filled from
InitTridiag ==
    /\ \E sys \in TridiagInputs :
          sim = [n |-> sys.n, a |-> sys.a, b |-> sys.b, c |-> sys.c, d |-> sys.d,
                 sys |-> sys]
    /\ ops = 0

\* solve_tridiagonal(a, b, c, d)
SolveTridiagonal ==
    /\ ops = 0
    /\ LET r == solve_tridiagonal(sim.a, sim.b, sim.c, sim.d, sim.n)
       IN  sim' = [sim EXCEPT !.b = r.b, !.d = r.d]
    /\ ops' = 1

NextTridiag == SolveTridiagonal

SpecTridiag == InitTridiag /\ [][NextTridiag]_vars

\* Simulation::Simulation with cap_strength = 0
InitFree ==
    /\ sim = resize(Members(ScenarioFree), MinGrid, MinGrid)
    /\ ops = 0

\* runs of step() under a real potential: the scene is edited, psi is
\* re-synthesised by reset() and then only stepped
NextFree ==
    \/ Reset
    \/ PushPacket
    \/ ClearPackets
    \/ AddBox
    \/ AddWell
    \/ Step
    \/ ToggleRunning

SpecFree == InitFree /\ [][NextFree]_vars

\* what a caller that drives playback does between frames: it retains or
\* injects packets, resets, re-baselines, toggles running and steps
NextCaller ==
    \/ Reset
    \/ InjectGaussian
    \/ PushPacket
    \/ Step
    \/ RefreshDiagnosticsBaseline
    \/ ToggleRunning

SpecCaller == InitGrid /\ [][NextCaller]_vars

\* ------------------------------------------------------------------------
\* PotentialField::build on boxes of any coordinates  (src/src/sim/potential.cpp)
\* ------------------------------------------------------------------------
\* Box{x0, y0, x1, y1, height} with both corners at (x, y)
PointBox(x, y, height) == [x0 |-> x, y0 |-> y, x1 |-> x, y1 |-> y, height |-> height]

\* boxes a caller may hand to addBox: of no area inside the domain, of no
\* area on the far corner x = y = 1, entirely below and left of the domain,
\* entirely above and right of it and far away, with both pairs of corners
\* reversed and one of them outside, a thin one across the whole domain, and
\* one that covers the domain and more
IndexBoxes ==
    {PointBox(Frac(1, 2), Frac(1, 2), FixQ),
     PointBox(FracInt(1), FracInt(1), 2 * FixQ),
     [x0 |-> FracInt(-3), y0 |-> FracInt(-2), x1 |-> Frac(-1, 16), y1 |-> Frac(-1, 2),
      height |-> 3 * FixQ],
     [x0 |-> FracInt(100000), y0 |-> Frac(9, 8), x1 |-> FracInt(200000), y1 |-> FracInt(7),
      height |-> -4 * FixQ],
     [x0 |-> Frac(5, 4), y0 |-> Frac(3, 4), x1 |-> Frac(3, 8), y1 |-> Frac(1, 4),
      height |-> 5 * FixQ],
     [x0 |-> FracInt(-1), y0 |-> Frac(3, 8), x1 |-> FracInt(2), y1 |-> Frac(3, 8),
      height |-> -6 * FixQ],
     [x0 |-> FracInt(-1), y0 |-> FracInt(2), x1 |-> FracInt(2), y1 |-> FracInt(-1),
      height |-> 7 * FixQ]}

\* Simulation::Simulation followed by resize to the 8 x 8 or the 9 x 8 grid
InitIndex ==
    /\ \E g \in {<<MinGrid, MinGrid>>, <<MinGrid + 1, MinGrid>>} :
          sim = resize(resize(Members(ScenarioCap), MinGrid, MinGrid), g[1], g[2])
    /\ ops = 0

\* addBox of any of the boxes, also one the scene already holds
AddIndexBox ==
    \E b \in IndexBoxes :
        /\ ops < MaxOps
        /\ sim' = addBox(sim, b)
        /\ ops' = ops + 1

NextIndex == AddIndexBox

SpecIndex == InitIndex /\ [][NextIndex]_vars

\* ------------------------------------------------------------------------
\* CrankNicolsonADI::step statement by statement  (src/src/sim/solver.cpp)
\* ------------------------------------------------------------------------
\* std::vector<cd>(n): n zeros
Zeros(n) == Array([i \in 0..(n - 1) |-> CZero])

\* a right-hand side whose neighbour outside the grid is the row at the
\* opposite edge
RowRhs_WrapsAround(psi, j, Nx, Ny, dy, dt) ==
    LET ry == FracDiv(FracMul(dt, Frac(1, 4)), FracMul(dy, dy))
    IN  Array([i \in 0..(Nx - 1) |->
            LET center == psi[idx(i, j, Nx)]
                up == psi[idx(i, (j + Ny - 1) % Ny, Nx)]
                dn == psi[idx(i, (j + 1) % Ny, Nx)]
                lap == CAdd(CSub(up, CScale(2, center)), dn)
            IN  CAdd(center, CMulI(CMulFrac(ry, lap)))])

\* the right-hand side (I + alpha D_y) psi of row j: lines 40-47
RowRhs(psi, j, Nx, Ny, dy, dt) ==
    LET ry == FracDiv(FracMul(dt, Frac(1, 4)), FracMul(dy, dy))
    IN  Array([i \in 0..(Nx - 1) |->
            LET center == psi[idx(i, j, Nx)]
                up == IF j > 0 THEN psi[idx(i, j - 1, Nx)] ELSE CZero
                dn == IF j < Ny - 1 THEN psi[idx(i, j + 1, Nx)] ELSE CZero
                lap == CAdd(CSub(up, CScale(2, center)), dn)
            IN  CAdd(center, CMulI(CMulFrac(ry, lap)))])

\* the right-hand side (I + alpha D_x) phi of column i: lines 66-72
ColumnRhs(phi, i, Nx, Ny, dx, dt) ==
    LET rx == FracDiv(FracMul(dt, Frac(1, 4)), FracMul(dx, dx))
    IN  Array([j \in 0..(Ny - 1) |->
            LET center == phi[idx(i, j, Nx)]
                lf == IF i > 0 THEN phi[idx(i - 1, j, Nx)] ELSE CZero
                rt == IF i < Nx - 1 THEN phi[idx(i + 1, j, Nx)] ELSE CZero
                lap == CAdd(CSub(lf, CScale(2, center)), rt)
            IN  CAdd(center, CMulI(CMulFrac(rx, lap)))])

\* ax = alpha / (dx * dx), and ay likewise, in fixed point: lines 29-31
AxisAlpha(h, dt) == Cx(0, FracFix(FracDiv(FracMul(dt, Frac(1, 4)), FracMul(h, h))))

\* coefficient loops that fill the three arrays only while they still hold
\* the zeros of their allocation
BuildCoefficients_OnlyWhenFresh(a, b, c, ax, n) ==
    IF b = Zeros(n) THEN TriCoeffs(ax, n) ELSE [a |-> a, b |-> b, c |-> c]

\* the coefficient loops of lines 49-53 and 74-78: every entry of the three
\* scratch arrays is assigned, whatever they held
BuildCoefficients(a, b, c, ax, n) ==
    [a |-> [i \in DOMAIN a |-> TriCoeffs(ax, n).a[i]],
     b |-> [i \in DOMAIN b |-> TriCoeffs(ax, n).b[i]],
     c |-> [i \in DOMAIN c |-> TriCoeffs(ax, n).c[i]]]

\* the packets a solver run starts from
SweepPackets == {PacketScript[n] : n \in 1..Len(PacketScript)}

\* a call solver.step(psi, Nx, Ny, dx, dy, dt, V) on the grid of a
\* Simulation with a box and a packet, before its first statement
InitSweep ==
    /\ \E s \in {injectGaussian(addBox(resize(Members(ScenarioCap), MinGrid, MinGrid), bx), p) :
                      p \in SweepPackets, bx \in BoxInputs} :
              sim = [Nx |-> s.Nx, Ny |-> s.Ny, dx |-> s.dx, dy |-> s.dy, dt |-> s.dt,
                     V |-> s.V, psi |-> s.psi, psi_in |-> s.psi,
                     phi |-> <<>>,
                     a |-> <<>>, b |-> <<>>, c |-> <<>>, d |-> <<>>,
                     ay_a |-> <<>>, ay_b |-> <<>>, ay_c |-> <<>>, rhs |-> <<>>,
                     pc |-> "kick", lines |-> {}, cur |-> -1]
    /\ ops = 0

\* lines 21-37: the first half-kick, then phi and the row scratch allocated
FirstHalfKick ==
    /\ sim.pc = "kick"
    /\ sim' = [sim EXCEPT !.psi = PotentialKick(sim.psi, sim.V, sim.dt),
                          !.phi = Zeros(sim.Nx * sim.Ny),
                          !.a = Zeros(sim.Nx), !.b = Zeros(sim.Nx),
                          !.c = Zeros(sim.Nx), !.d = Zeros(sim.Nx),
                          !.pc = "x"]
    /\ UNCHANGED ops

\* the lines of 0..(n - 1) a sweep may take next when it has done those of
\* done: the lowest or the highest one left.  The loops of lines 38 and 64
\* take the lowest; both choices together give 2^(n-1) orders, index order
\* and its reverse among them, and solve a line before, between and after
\* its two neighbours
NextLines(done, n) ==
    LET left == (0..(n - 1)) \ done
    IN  {j \in left : (\A k \in left : k >= j) \/ (\A k \in left : k <= j)}

\* lines 40-53 for one row j: the right-hand side and the coefficients are
\* written into the scratch
BuildRow ==
    \E j \in NextLines(sim.lines, sim.Ny) :
        /\ sim.pc = "x" /\ sim.cur = -1
        /\ LET co == BuildCoefficients(sim.a, sim.b, sim.c, AxisAlpha(sim.dx, sim.dt), sim.Nx)
           IN  sim' = [sim EXCEPT !.d = RowRhs(sim.psi, j, sim.Nx, sim.Ny, sim.dy, sim.dt),
                                  !.a = co.a, !.b = co.b, !.c = co.c,
                                  !.cur = j]
        /\ UNCHANGED ops

\* lines 55-59: the row is solved in the scratch and stored into phi
SolveRow ==
    /\ sim.pc = "x" /\ sim.cur >= 0
    /\ \E r \in {solve_tridiagonal(sim.a, sim.b, sim.c, sim.d, sim.Nx)} :
           sim' = [sim EXCEPT !.b = r.b, !.d = r.d,
                              !.phi = [k \in DOMAIN sim.phi |->
                                         IF k \div sim.Nx = sim.cur
                                         THEN r.d[k % sim.Nx] ELSE sim.phi[k]],
                              !.lines = @ \cup {sim.cur},
                              !.cur = -1]
    /\ ops' = ops + 1

\* line 63: the row loop is over, the column scratch is allocated
StartColumns ==
    /\ sim.pc = "x" /\ sim.cur = -1 /\ sim.lines = 0..(sim.Ny - 1)
    /\ sim' = [sim EXCEPT !.ay_a = Zeros(sim.Ny), !.ay_b = Zeros(sim.Ny),
                          !.ay_c = Zeros(sim.Ny), !.rhs = Zeros(sim.Ny),
                          !.pc = "y", !.lines = {}]
    /\ UNCHANGED ops

\* lines 66-78 for one column i
BuildColumn ==
    \E i \in NextLines(sim.lines, sim.Nx) :
        /\ sim.pc = "y" /\ sim.cur = -1
        /\ LET co == BuildCoefficients(sim.ay_a, sim.ay_b, sim.ay_c,
                                       AxisAlpha(sim.dy, sim.dt), sim.Ny)
           IN  sim' = [sim EXCEPT !.rhs = ColumnRhs(sim.phi, i, sim.Nx, sim.Ny, sim.dx, sim.dt),
                                  !.ay_a = co.a, !.ay_b = co.b, !.ay_c = co.c,
                                  !.cur = i]
        /\ UNCHANGED ops

\* lines 79-82: the column is solved in the scratch and stored into psi
SolveColumn ==
    /\ sim.pc = "y" /\ sim.cur >= 0
    /\ \E r \in {solve_tridiagonal(sim.ay_a, sim.ay_b, sim.ay_c, sim.rhs, sim.Ny)} :
           sim' = [sim EXCEPT !.ay_b = r.b, !.rhs = r.d,
                              !.psi = [k \in DOMAIN sim.psi |->
                                         IF k % sim.Nx = sim.cur
                                         THEN r.d[k \div sim.Nx] ELSE sim.psi[k]],
                              !.lines = @ \cup {sim.cur},
                              !.cur = -1]
    /\ ops' = ops + 1

\* lines 86-91: the column loop is over, the second half-kick
SecondHalfKick ==
    /\ sim.pc = "y" /\ sim.cur = -1 /\ sim.lines = 0..(sim.Nx - 1)
    /\ sim' = [sim EXCEPT !.psi = PotentialKick(sim.psi, sim.V, sim.dt), !.pc = "done"]
    /\ UNCHANGED ops

NextSweep ==
    \/ FirstHalfKick
    \/ BuildRow
    \/ SolveRow
    \/ StartColumns
    \/ BuildColumn
    \/ SolveColumn
    \/ SecondHalfKick

SpecSweep == InitSweep /\ [][NextSweep]_vars

\* ------------------------------------------------------------------------
\* Properties
\* ------------------------------------------------------------------------
TheBox == CHOOSE b \in BoxInputs : TRUE
TheWell == CHOOSE w \in WellInputs : TRUE

\* r keeps the flag and the reason of s
KeepsFlag(s, r) ==
    /\ r.diagnostics.unstable
    /\ r.diagnostics.reason = s.diagnostics.reason

\* C1: the unstable flag is sticky.  In every reachable state where
\* diagnostics.unstable is set, each of step, stepN, injectGaussian, addBox,
\* addWell and update_diagnostics returns with the flag still set and the
\* reason unchanged; the only operations left are the re-baselining ones.
C1_StickyUnstable ==
    [](sim.diagnostics.unstable =>
        /\ KeepsFlag(sim, step(sim))
        /\ KeepsFlag(sim, stepN(sim, 2))
        /\ \A p \in PacketInputs : KeepsFlag(sim, injectGaussian(sim, p))
        /\ KeepsFlag(sim, addBox(sim, TheBox))
        /\ KeepsFlag(sim, addWell(sim, TheWell))
        /\ \A ts \in BOOLEAN : KeepsFlag(sim, update_diagnostics(sim, ts)))

\* a state flagged for a drift in which psi has since become non-finite: the
\* monitor ran again on a state it would flag for another reason
C1_Witness ==
    /\ sim.diagnostics.unstable
    /\ sim.diagnostics.has_non_finite
    /\ sim.diagnostics.reason # "psi contains NaN/Inf"

\* the diagnostics d report a non-finite psi
FlaggedNonFinite(d) ==
    /\ d.unstable
    /\ d.has_non_finite
    /\ d.reason = "psi contains NaN/Inf"

\* s with another step count and another warm-up length
WithWarmup(s, k, w) ==
    [s EXCEPT !.diagnostics.steps_since_baseline = k, !.stability.warmup_steps = w]

\* C2: non-finite detection is never suppressed by warm-up.  From every
\* reachable state that is not flagged: injectGaussian of a NaN packet (which
\* runs update_diagnostics(false) on the psi it made non-finite) ends with
\* unstable = true, has_non_finite = true and reason "psi contains NaN/Inf";
\* and if psi has a non-finite cell, so does update_diagnostics(true or
\* false) for every steps_since_baseline in 0..3 and warmup_steps in
\* {-1, 0, 1, 8}.
C2_NonFiniteNeverSuppressed ==
    ~sim.diagnostics.unstable =>
        /\ FlaggedNonFinite(injectGaussian(sim, PacketNaN).diagnostics)
        /\ ~AllFinite(sim.psi) =>
               \A k \in 0..3 : \A w \in {-1, 0, 1, 8} : \A ts \in BOOLEAN :
                   FlaggedNonFinite(
                       update_diagnostics(WithWarmup(sim, k, w), ts).diagnostics)

\* a non-finite psi was flagged inside the warm-up window, after a time step
C2_Witness ==
    /\ FlaggedNonFinite(sim.diagnostics)
    /\ sim.stability.warmup_steps = 1
    /\ sim.diagnostics.steps_since_baseline = 1

\* the diagnostics d are a fresh baseline
FreshBaseline(d) ==
    /\ ~d.unstable
    /\ d.reason = ""
    /\ d.steps_since_baseline = 0
    /\ d.initial_mass = d.current_mass
    /\ d.initial_interior_mass = d.current_interior_mass
    /\ d.rel_mass_drift = RatioZero
    /\ d.rel_interior_mass_drift = RatioZero

\* C3: re-baselining postcondition.  From every reachable state, whatever its
\* diagnostics, refresh_diagnostics_baseline, reset, resize and an accepted
\* apply_eigenstate return with unstable false, an empty reason,
\* steps_since_baseline 0, initial_mass the value of current_mass,
\* initial_interior_mass the value of current_interior_mass and both relative
\* drifts 0.
C3_RebaselinePostcondition ==
    /\ FreshBaseline(refresh_diagnostics_baseline(sim).diagnostics)
    /\ FreshBaseline(reset(sim).diagnostics)
    /\ \A a \in ResizeInputs : FreshBaseline(resize(sim, a[1], a[2]).diagnostics)
    /\ \A e \in EigenInputs :
          Len(e.psi) = sim.Nx * sim.Ny =>
              FreshBaseline(apply_eigenstate(sim, e).diagnostics)

\* the baseline apply_eigenstate left: psi is the eigenstate of the grid's
\* size and the baseline masses are its mass
C3_Witness ==
    /\ \E e \in EigenInputs :
          /\ Len(e.psi) = sim.Nx * sim.Ny
          /\ \A k \in DOMAIN sim.psi : sim.psi[k] = e.psi[k + 1]
    /\ FreshBaseline(sim.diagnostics)
    /\ ~sim.diagnostics.initial_mass.nf
    /\ sim.diagnostics.initial_mass.v > 0

\* C4: auto-pause.  From every reachable state, step() returns with running
\* false when it returns with unstable true and auto_pause_on_instability
\* true (whether this step set the flag or found it set); otherwise it leaves
\* running as it was; and it never turns running from false to true.
C4_AutoPause ==
    [](LET r == step(sim)
           pausing == r.diagnostics.unstable /\ r.stability.auto_pause_on_instability
       IN  /\ pausing => ~r.running
           /\ ~pausing => r.running = sim.running
           /\ r.running => sim.running)

\* a running simulation whose flag is already set, which the next step pauses
C4_Witness ==
    /\ sim.running
    /\ sim.diagnostics.unstable
    /\ sim.stability.auto_pause_on_instability
    /\ ~step(sim).running

\* C5: warm-up gate.  With psi finite and the flag not set, a call of
\* update_diagnostics that leaves steps_since_baseline (counted after the
\* call's own increment) at or below max(0, warmup_steps) does not set
\* unstable, whatever the drift: checked for the state's own counter and
\* warm-up length and, for warmup_steps in {-1, 0, 2}, for the last call the
\* gate covers.  Hence every reachable state flagged for a drift has
\* steps_since_baseline > max(0, warmup_steps): no time step numbered
\* warmup_steps or less, and no non-time-step update before step
\* warmup_steps + 1, flags a drift.
C5_WarmupGate ==
    /\ (AllFinite(sim.psi) /\ ~sim.diagnostics.unstable) =>
          \A ts \in BOOLEAN :
              LET gated(s) ==
                      LET d == update_diagnostics(s, ts).diagnostics
                      IN  d.steps_since_baseline <= Max(0, s.stability.warmup_steps)
                              => ~d.unstable
              IN  /\ gated(sim)
                  /\ \A w \in {-1, 0, 2} :
                        LET k == Max(0, w) - (IF ts THEN 1 ELSE 0)
                        IN  k >= 0 => gated(WithWarmup(sim, k, w))
    /\ (sim.diagnostics.unstable /\ sim.diagnostics.reason # "psi contains NaN/Inf") =>
          sim.diagnostics.steps_since_baseline > Max(0, sim.stability.warmup_steps)

\* a finite psi one time step after its baseline, inside a warm-up of one
\* step, whose mass drifted by more than 100 % and which is not flagged
C5_Witness ==
    /\ sim.stability.warmup_steps = 1
    /\ sim.diagnostics.steps_since_baseline = 1
    /\ ~sim.diagnostics.has_non_finite
    /\ RatioGt(sim.diagnostics.rel_mass_drift, FracInt(1))
    /\ ~sim.diagnostics.unstable

\* s measured against another baseline: total mass m, interior mass mi
WithBaseline(s, m, mi) ==
    [s EXCEPT !.diagnostics.initial_mass = m, !.diagnostics.initial_interior_mass = mi]

\* what C6 says of the diagnostics d a call of update_diagnostics left, for
\* the configuration of s; total_tol and interior_tol are the tolerances the
\* code compares with, max(0, configured tolerance)
DriftDecisionAsClaimed(s, d) ==
    LET capOn == s.pfield.cap_strength > 0 /\ s.pfield.cap_ratio.n > 0
        tol == FracMax(FracInt(0), s.stability.rel_mass_drift_tol)
        itol == FracMax(FracInt(0), s.stability.rel_interior_mass_drift_tol)
        grew == d.current_mass.v * tol.d > d.initial_mass.v * (tol.d + tol.n)
        drifted == Abs(d.current_mass.v - d.initial_mass.v) * tol.d
                       > tol.n * Max(MassFloor, d.initial_mass.v)
        inner == Abs(d.current_interior_mass.v - d.initial_interior_mass.v) * itol.d
                     > itol.n * Max(MassFloor, d.initial_interior_mass.v)
        totalTest == IF capOn THEN grew ELSE drifted
    IN  /\ d.unstable <=> (totalTest \/ inner)
        /\ totalTest =>
              d.reason = IF capOn THEN "total mass grew unexpectedly with CAP"
                         ELSE "mass drift exceeded tolerance"
        /\ (~totalTest /\ inner) => d.reason = "interior mass drift exceeded tolerance"
        /\ ~d.unstable => d.reason = s.diagnostics.reason

\* C6: drift decision after warm-up.  With psi finite and the flag not set,
\* a call of update_diagnostics that leaves steps_since_baseline above
\* max(0, warmup_steps) flags unstable, with CAP enabled, iff current_mass >
\* initial_mass * (1 + total_tol) or rel_interior_mass_drift > interior_tol
\* (so no decrease of the total mass is flagged by the total-mass test), and
\* with CAP disabled iff rel_mass_drift > total_tol or
\* rel_interior_mass_drift > interior_tol; when the total-mass test fails it
\* gives the reason, else the interior test does.  Checked against the
\* state's own baseline, against a baseline of twice the current masses (a
\* decrease of one half) and against a baseline of the current total mass
\* and no interior mass (only the interior test can fail).
C6_DriftDecision ==
    (AllFinite(sim.psi) /\ ~sim.diagnostics.unstable) =>
        \A ts \in BOOLEAN :
            LET decided(s) ==
                    LET d == update_diagnostics(s, ts).diagnostics
                    IN  d.steps_since_baseline > Max(0, s.stability.warmup_steps)
                            => DriftDecisionAsClaimed(s, d)
                cur == sim.diagnostics.current_mass.v
                curi == sim.diagnostics.current_interior_mass.v
            IN  /\ decided(sim)
                /\ decided(WithBaseline(sim, Num(2 * cur), Num(2 * curi)))
                /\ decided(WithBaseline(sim, Num(cur), Num(0)))

\* both tests fail and the total-mass test gave the reason
C6_Witness ==
    /\ sim.diagnostics.unstable
    /\ sim.diagnostics.reason = "total mass grew unexpectedly with CAP"
    /\ RatioGt(sim.diagnostics.rel_interior_mass_drift,
               FracMax(FracInt(0), sim.stability.rel_interior_mass_drift_tol))

\* the CN-ADI operator applied to the psi of s
Evolve(s) ==
    [s EXCEPT !.psi = CrankNicolsonADI_step(s.psi, s.Nx, s.Ny, s.dx, s.dy, s.dt, s.V)]

\* C7: stepN(n) is max(0, n) consecutive step() calls.  For n <= 0 stepN(n)
\* changes nothing and stepN(1) returns what step() returns; and every
\* transition that counts two calls at once (a batch of two, the only
\* operation that does) ends in the state two step() calls return, with
\* steps_since_baseline advanced by 2 and psi the CN-ADI operator applied
\* twice, also when the first step of the batch flags instability and
\* auto-pause clears running.
C7_StepNRepeatsStep ==
    [][ /\ stepN(sim, -1) = sim
        /\ stepN(sim, 0) = sim
        /\ ops' = ops + 2 =>
              /\ sim' = stepN(sim, 2)
              /\ sim' = step(step(sim))
              /\ sim'.diagnostics.steps_since_baseline =
                     sim.diagnostics.steps_since_baseline + 2
              /\ sim'.psi = Evolve(Evolve(sim)).psi
              /\ stepN(sim, 1) = step(sim) ]_vars

\* a running simulation whose next step flags instability and is paused, and
\* whose batch of two still counts two steps
C7_Witness ==
    /\ ops + 2 <= MaxOps
    /\ sim.running
    /\ ~sim.diagnostics.unstable
    /\ step(sim).diagnostics.unstable
    /\ ~step(sim).running
    /\ stepN(sim, 2).diagnostics.steps_since_baseline =
           sim.diagnostics.steps_since_baseline + 2

\* the field one packet contributes to a psi of zeros on the grid of s
PacketField(s, p) == injectGaussian(clearPsi(s), p).psi

\* cell k of zero plus the first n of the fields, added in order
RECURSIVE SumFields(_, _, _)
SumFields(fields, n, k) ==
    IF n = 0 THEN CZero ELSE CAdd(SumFields(fields, n - 1, k), fields[n][k])

\* C8: after reset() psi is the field got from all zeros by adding the
\* Gaussian contribution of each retained packet in list order, whatever psi
\* was before the call and however many steps were taken (the same psi
\* comes out of reset after one step more); with an empty packet list psi is
\* 0 in every cell and mass() is 0.
C8_ResetSynthesis ==
    [](LET r == reset(sim)
           fields == Array([n \in 1..Len(sim.packets) |->
                               PacketField(sim, sim.packets[n])])
       IN  /\ DOMAIN r.psi = DOMAIN sim.psi
           /\ \A k \in DOMAIN r.psi : r.psi[k] = SumFields(fields, Len(sim.packets), k)
           /\ ops < MaxOps => reset(step(sim)).psi = r.psi
           /\ sim.packets = <<>> =>
                 /\ \A k \in DOMAIN r.psi : r.psi[k] = CZero
                 /\ mass(r) = Num(0))

\* a fresh baseline over two retained packets: psi is their sum and, in a
\* cell both reach, neither packet's field alone
C8_Witness ==
    /\ Len(sim.packets) = 2
    /\ FreshBaseline(sim.diagnostics)
    /\ sim.diagnostics.initial_mass.v > 0
    /\ LET f1 == PacketField(sim, sim.packets[1])
           f2 == PacketField(sim, sim.packets[2])
       IN  /\ \A k \in DOMAIN sim.psi : sim.psi[k] = CAdd(CAdd(CZero, f1[k]), f2[k])
           /\ \E k \in DOMAIN sim.psi : f1[k] # CZero /\ f2[k] # CZero

\* the grid of s is one of square cells that psi and V cover
SquareCells(s) ==
    /\ s.dx = s.dy
    /\ DOMAIN s.psi = 0..(s.Nx * s.Ny - 1)
    /\ DOMAIN s.V = 0..(s.Nx * s.Ny - 1)

\* C9: grid invariant.  In every reachable state dx = dy and psi and V hold
\* Nx * Ny cells; and from every reachable state resize(a, b), for (a, b)
\* below the minimum, zero, negative and above it, returns with
\* Nx = max(8, a), Ny = max(8, b), dx = dy = 1 / min(Nx, Ny), Lx = Nx * dx,
\* Ly = Ny * dy and psi and V of Nx * Ny cells.
C9_GridInvariant ==
    [](/\ SquareCells(sim)
       /\ \A a \in ResizeInputs \cup (IF ops = 0 THEN {<<8, 8>>, <<7, 10>>} ELSE {}) :
             LET r == resize(sim, a[1], a[2])
             IN  /\ r.Nx = Max(8, a[1])
                 /\ r.Ny = Max(8, a[2])
                 /\ r.dx = Frac(1, Min(r.Nx, r.Ny))
                 /\ r.Lx = FracMul(FracInt(r.Nx), r.dx)
                 /\ r.Ly = FracMul(FracInt(r.Ny), r.dy)
                 /\ SquareCells(r))

\* a 9 x 8 grid of cells of side 1/8 that has taken a time step
C9_Witness ==
    /\ sim.Nx = 9 /\ sim.Ny = 8
    /\ sim.dx = Frac(1, 8) /\ sim.dy = Frac(1, 8)
    /\ sim.Lx = Frac(9, 8)
    /\ DOMAIN sim.psi = 0..71
    /\ sim.diagnostics.steps_since_baseline > 0

\* r and s have the same psi, V and diagnostics
SameField(r, s) ==
    /\ r.psi = s.psi
    /\ r.V = s.V
    /\ r.diagnostics = s.diagnostics

\* C10: resize reproducibility.  From every reachable state, resize to the
\* current (Nx, Ny) once or twice and then reset() gives the psi, V and
\* diagnostics a single reset() gives; and resize to the current dimensions
\* returns exactly the state reset() returns, so on an evolved simulation it
\* is not a no-op.
C10_ResizeReproducible ==
    [](LET r == reset(sim)
           once == resize(sim, sim.Nx, sim.Ny)
           twice == resize(once, once.Nx, once.Ny)
       IN  /\ once = r
           /\ SameField(reset(once), r)
           /\ SameField(reset(twice), r))

\* an evolved simulation with a packet to re-synthesise, which resize to the
\* current dimensions takes back to the psi of reset()
C10_Witness ==
    /\ ops > 0
    /\ sim.packets # <<>>
    /\ sim.psi # reset(sim).psi
    /\ resize(sim, sim.Nx, sim.Ny) # sim
    /\ resize(sim, sim.Nx, sim.Ny).psi = reset(sim).psi

\* r differs from s in psi, V and the diagnostics at most
SameButField(r, s) ==
    [r EXCEPT !.psi = s.psi, !.V = s.V, !.diagnostics = s.diagnostics] = s

\* C11: the frame of reset().  From every reachable state reset() returns
\* with the box list, the well list, the packet list, the CAP parameters,
\* Nx, Ny, dt and the stability configuration it found, and with every other
\* member but psi, V and the diagnostics unchanged.
C11_ResetFrame ==
    [](LET r == reset(sim)
       IN  /\ r.pfield.boxes = sim.pfield.boxes
           /\ r.pfield.wells = sim.pfield.wells
           /\ r.packets = sim.packets
           /\ r.pfield.cap_strength = sim.pfield.cap_strength
           /\ r.pfield.cap_ratio = sim.pfield.cap_ratio
           /\ r.Nx = sim.Nx /\ r.Ny = sim.Ny /\ r.dt = sim.dt
           /\ r.stability = sim.stability
           /\ SameButField(r, sim))

\* an evolved simulation with a box and a retained packet, whose psi reset()
\* replaces while the box and the packet stay
C11_Witness ==
    /\ ops > 0
    /\ sim.pfield.boxes # <<>>
    /\ sim.packets # <<>>
    /\ reset(sim).psi # sim.psi
    /\ reset(sim).packets = sim.packets
    /\ reset(sim).pfield.boxes = sim.pfield.boxes

\* r measures against the baseline of s: the baseline masses are those of s,
\* the step counter was not reset, and the drift of r is the drift of its
\* current mass from the baseline mass of s
BaselineKept(s, r) ==
    /\ r.diagnostics.initial_mass = s.diagnostics.initial_mass
    /\ r.diagnostics.initial_interior_mass = s.diagnostics.initial_interior_mass
    /\ r.diagnostics.steps_since_baseline >= s.diagnostics.steps_since_baseline
    /\ r.diagnostics.rel_mass_drift =
           RelDrift(r.diagnostics.current_mass, s.diagnostics.initial_mass)

\* C12: the frame of the baseline.  Every transition that changes psi or
\* counts a time step (injectGaussian, step, stepN, a time-step update)
\* leaves initial_mass and initial_interior_mass as they were, does not
\* reset steps_since_baseline, and measures its drift against the baseline
\* captured before it; so do addBox and addWell, applied to the state a
\* batch of two starts from.
C12_BaselineFrame ==
    [][ /\ ops' > ops => BaselineKept(sim, sim')
        /\ ops' = ops + 2 =>
              /\ BaselineKept(sim, addBox(sim, TheBox))
              /\ BaselineKept(sim, addWell(sim, TheWell)) ]_vars

\* a packet injected after a baseline over a retained packet: the mass has
\* grown and the baseline mass has not followed
C12_Witness ==
    /\ ops = 1
    /\ sim.diagnostics.steps_since_baseline = 0
    /\ sim.diagnostics.initial_mass.v > 0
    /\ NumGt(sim.diagnostics.current_mass, sim.diagnostics.initial_mass)
    /\ RatioGt(sim.diagnostics.rel_mass_drift, FracInt(0))

\* the diagnostics of r are those of its psi
Fresh(r) ==
    /\ r.diagnostics.current_mass = mass(r)
    /\ r.diagnostics.current_interior_mass = interior_mass(r)
    /\ r.diagnostics.has_non_finite <=> (\E k \in DOMAIN r.psi : r.psi[k].nf)

\* C13: diagnostics freshness.  In every reachable state (each was left by
\* the constructor, step, stepN, injectGaussian, reset or an update, or by a
\* caller's action that leaves psi alone) and, from the states that can
\* still change psi, after addBox, addWell, resize and an accepted
\* apply_eigenstate, current_mass is mass(),
\* current_interior_mass is interior_mass() and has_non_finite holds iff psi
\* has a non-finite cell.
C13_DiagnosticsFresh ==
    [](/\ Fresh(sim)
       /\ ops < MaxOps =>
             /\ Fresh(addBox(sim, TheBox))
             /\ Fresh(addWell(sim, TheWell))
             /\ Fresh(resize(sim, 9, 7))
             /\ \A e \in EigenInputs :
                   Len(e.psi) = sim.Nx * sim.Ny => Fresh(apply_eigenstate(sim, e)))

\* a finite psi that has taken a time step, part of its mass in the sponge
\* band and part in the interior, with the masses of this psi cached
C13_Witness ==
    /\ sim.diagnostics.steps_since_baseline > 0
    /\ ~sim.diagnostics.has_non_finite
    /\ sim.diagnostics.current_interior_mass.v > 0
    /\ NumGt(sim.diagnostics.current_mass, sim.diagnostics.current_interior_mass)
    /\ sim.diagnostics.current_mass = mass(sim)
    /\ sim.diagnostics.current_interior_mass = interior_mass(sim)

\* the mass of the columns i0..i1-1 of s, in exact arithmetic
SideMass(s, i0, i1) ==
    LET sum == RectNorm(s, i0, i1, 0, s.Ny)
    IN  IF sum.nf THEN NaN
        ELSE Num((sum.v * MassDen * s.dx.n * s.dy.n) \div (s.dx.d * s.dy.d))

\* a >= b on doubles: FALSE when either side is NaN
NumGeq(a, b) == ~a.nf /\ ~b.nf /\ a.v >= b.v

\* mass_split of r returns the mass of the columns i < floor(Nx / 2) and the
\* mass of the other columns; when psi has no non-finite cell the two are
\* >= 0 and add up to current_mass, and when it has one current_mass is
\* non-finite and so is a side
SplitsAtMidline(r) ==
    LET ms == mass_split(r)
        mid == r.Nx \div 2
    IN  /\ ms.left = SideMass(r, 0, mid)
        /\ ms.right = SideMass(r, mid, r.Nx)
        /\ ~r.diagnostics.has_non_finite =>
              /\ NumGeq(ms.left, Num(0))
              /\ NumGeq(ms.right, Num(0))
              /\ NumAdd(ms.left, ms.right) = r.diagnostics.current_mass
        /\ r.diagnostics.has_non_finite =>
              /\ r.diagnostics.current_mass = NaN
              /\ ms.left = NaN \/ ms.right = NaN

\* C14 as amended: mass_split returns the totals the last diagnostics update
\* cached; the update counts every cell on exactly one side (columns
\* i < floor(Nx / 2) left, the others right); and when psi has no non-finite
\* cell, left_mass + right_mass = current_mass (in exact arithmetic) and
\* both are >= 0.  Checked in every reachable state and, on the 9-column
\* grid, after a packet is injected on its middle column.
C14_MassSplit ==
    [](/\ SplitsAtMidline(sim)
       /\ ops < MaxOps =>
             SplitsAtMidline(injectGaussian(resize(sim, 9, 7), PacketA)))

\* a finite psi after a time step with mass on both sides of the midline
C14_Witness ==
    /\ sim.diagnostics.steps_since_baseline > 0
    /\ ~sim.diagnostics.has_non_finite
    /\ mass_split(sim).left.v > 0
    /\ mass_split(sim).right.v > 0
    /\ mass_split(sim).left # mass_split(sim).right
    /\ NumAdd(mass_split(sim).left, mass_split(sim).right) = sim.diagnostics.current_mass

\* C14 as claimed: after every diagnostics update left_mass + right_mass =
\* current_mass and both are >= 0
C14_AsClaimed ==
    LET ms == mass_split(sim)
    IN  /\ NumGeq(ms.left, Num(0))
        /\ NumGeq(ms.right, Num(0))
        /\ NumAdd(ms.left, ms.right) = sim.diagnostics.current_mass

\* cap_ratio values: the default band, a band forced to one cell (0 and a
\* negative ratio), bands of 3/8 and 7/16 of the side, bands that meet in the
\* middle (1/2) and bands wider than the grid (2)
RatioInputs ==
    {Frac(1, 4), FracInt(0), Frac(-1, 4), Frac(3, 8), Frac(7, 16), Frac(1, 2), FracInt(2)}

\* the mass of the cells lo..hi-1 of s that lie in the rectangle r, in exact
\* arithmetic and in units of dx * dy (the range is split in halves)
RECURSIVE NormWhere(_, _, _, _)
NormWhere(s, r, lo, hi) ==
    IF hi = lo + 1
    THEN LET i == lo % s.Nx
             j == lo \div s.Nx
         IN  IF r.i0 <= i /\ i < r.i1 /\ r.j0 <= j /\ j < r.j1
             THEN CNorm(s.psi[lo]) ELSE Num(0)
    ELSE LET h == (lo + hi) \div 2
         IN  NumAdd(NormWhere(s, r, lo, h), NormWhere(s, r, h, hi))

\* the region C15 names: wx <= i < Nx - wx and wy <= j < Ny - wy, or the
\* whole grid when 2 wx >= Nx or 2 wy >= Ny
ClaimedInterior(s) ==
    LET wx == Max(1, FracRound(FracMul(s.pfield.cap_ratio, FracInt(s.Nx))))
        wy == Max(1, FracRound(FracMul(s.pfield.cap_ratio, FracInt(s.Ny))))
    IN  IF 2 * wx >= s.Nx \/ 2 * wy >= s.Ny
        THEN [i0 |-> 0, i1 |-> s.Nx, j0 |-> 0, j1 |-> s.Ny, whole |-> TRUE]
        ELSE [i0 |-> wx, i1 |-> s.Nx - wx, j0 |-> wy, j1 |-> s.Ny - wy, whole |-> FALSE]

\* interior_mass() of s sums the claimed region, which lies inside the grid,
\* and is mass() when the region is the whole grid
SumsClaimedInterior(s) ==
    LET c == ClaimedInterior(s)
        r == InteriorMassRect(s)
        sum == NormWhere(s, c, 0, s.Nx * s.Ny)
    IN  /\ 0 <= r.i0 /\ r.i0 < r.i1 /\ r.i1 <= s.Nx
        /\ 0 <= r.j0 /\ r.j0 < r.j1 /\ r.j1 <= s.Ny
        /\ interior_mass(s) =
              IF sum.nf THEN NaN
              ELSE Num((sum.v * MassDen * s.dx.n * s.dy.n) \div (s.dx.d * s.dy.d))
        /\ c.whole => interior_mass(s) = mass(s)

\* 0 <= interior_mass() <= mass() on doubles
InteriorWithinMass(s) ==
    /\ NumGeq(interior_mass(s), Num(0))
    /\ NumGeq(mass(s), interior_mass(s))

\* s with another cap_ratio
WithRatio(s, c) == [s EXCEPT !.pfield.cap_ratio = c]

\* C15 as amended: interior_mass() sums exactly the cells with
\* wx <= i < Nx - wx and wy <= j < Ny - wy when that rectangle is non-empty
\* on both axes and the whole grid (interior_mass() = mass()) when
\* 2 wx >= Nx or 2 wy >= Ny; the region never leaves the grid; and when psi
\* has no non-finite cell 0 <= interior_mass() <= mass().  Checked with its
\* own ratio on every reachable state, with every ratio of RatioInputs on
\* the states before the last operation, and on the 9 x 8 grid from the
\* freshly synthesised ones.
C15_InteriorRegion ==
    [](\A c \in RatioInputs :
          /\ c = sim.pfield.cap_ratio \/ ops < MaxOps =>
                /\ SumsClaimedInterior(WithRatio(sim, c))
                /\ AllFinite(sim.psi) => InteriorWithinMass(WithRatio(sim, c))
          /\ ops = 0 =>
                LET g == WithRatio(resize(sim, 9, 7), c)
                IN  SumsClaimedInterior(g) /\ InteriorWithinMass(g))

\* a band forced to one cell (cap_ratio = 0) around a finite psi with mass
\* in the band and in the interior
C15_Witness ==
    /\ sim.pfield.cap_ratio = FracInt(0)
    /\ ~ClaimedInterior(sim).whole
    /\ ClaimedInterior(sim).i0 = 1
    /\ AllFinite(sim.psi)
    /\ interior_mass(sim).v > 0
    /\ NumGt(mass(sim), interior_mass(sim))

\* C15 as claimed: in every case 0 <= interior_mass() <= mass()
C15_AsClaimed == InteriorWithinMass(sim)

\* the potential built from scratch from the boxes, wells and CAP parameters
\* of s on the grid of s
BuiltFromScratch(s) ==
    build([s.pfield EXCEPT !.Nx = s.Nx, !.Ny = s.Ny, !.Lx = s.Lx, !.Ly = s.Ly])

\* C16: in every state reached through resize, reset, addBox and addWell
\* interleaved with step (and with eigenstates and packet edits), V is what
\* build produces from scratch from the current boxes, wells, CAP parameters
\* and grid; building again leaves V as it is; and neither step nor
\* injectGaussian changes V or the potential field.
C16_PotentialConsistent ==
    [](/\ sim.V = BuiltFromScratch(sim)
       /\ SyncAndBuild(sim).V = sim.V
       /\ LET r == step(sim)
          IN  r.V = sim.V /\ r.pfield = sim.pfield
       /\ \A p \in PacketInputs \cup {PacketEdge} :
             LET r == injectGaussian(sim, p)
             IN  r.V = sim.V /\ r.pfield = sim.pfield)

\* a 9 x 8 grid that got a well after the resize and was stepped since, with
\* the well in V
C16_Witness ==
    /\ sim.Nx = 9
    /\ sim.pfield.wells # <<>>
    /\ ops > 0
    /\ \E k \in DOMAIN sim.V : sim.V[k].re < 0
    /\ sim.V = BuiltFromScratch(sim)

\* the sum of the heights of the boxes whose numbers are in S
RECURSIVE SumHeights(_, _)
SumHeights(boxes, S) ==
    IF S = {} THEN 0
    ELSE LET n == CHOOSE m \in S : TRUE
         IN  boxes[n].height + SumHeights(boxes, S \ {n})

\* the numbers of the boxes of pf whose inclusive index rectangle holds (i, j)
BoxesOver(pf, i, j) ==
    {n \in 1..Len(pf.boxes) :
        LET r == BoxRect(pf.boxes[n], pf.Nx, pf.Ny)
        IN  r.ix0 <= i /\ i <= r.ix1 /\ r.iy0 <= j /\ j <= r.iy1}

\* the boxes of pf in the order q, a permutation of their numbers
Reordered(pf, q) ==
    [pf EXCEPT !.boxes = [n \in 1..Len(pf.boxes) |-> pf.boxes[q[n]]]]

C18_AsClaimed ==
    LET pf == sim.pfield
        sponge == build([pf EXCEPT !.boxes = <<>>, !.wells = <<>>])
        sources == build([pf EXCEPT !.cap_strength = 0])
    IN  \A k \in DOMAIN sim.V :
            /\ sim.V[k].im <= 0
            /\ sim.V[k].im = sponge[k].im
            /\ sim.V[k].re = sources[k].re

\* |Im(V)| in cell (i, j) of s
SpongeMagnitude(s, i, j) == Abs(s.V[idx(i, j, s.Nx)].im)

\* f, a function of an index 0..N-1, is non-increasing from either end
\* toward the middle and the same at mirrored indices
SpongeShaped(f, N) ==
    LET mid == (N - 1) \div 2
    IN  /\ \A i \in 0..(N - 2) : i + 1 <= mid => f[i + 1] <= f[i]
        /\ \A i \in 1..(N - 1) : i - 1 >= N - 1 - mid => f[i - 1] <= f[i]
        /\ \A i \in 0..(N - 1) : f[i] = f[N - 1 - i]

\* C19 as claimed: along every row and every column |Im(V)| is
\* non-increasing from either edge toward the interior and the same at
\* mirrored positions; it is 0 in every cell with wx <= i < Nx - wx and
\* wy <= j < Ny - wy; and in every cell it is the larger of what the x
\* proximity alone and the y proximity alone give.
C19_AsClaimed ==
    LET pf == sim.pfield
        wx == CapWidth(pf.cap_ratio, pf.Nx)
        wy == CapWidth(pf.cap_ratio, pf.Ny)
        alone(p) == Abs(CapAbsorb(pf.cap_strength, p, FracInt(0)))
    IN  /\ \A j \in 0..(sim.Ny - 1) :
              SpongeShaped([i \in 0..(sim.Nx - 1) |-> SpongeMagnitude(sim, i, j)], sim.Nx)
        /\ \A i \in 0..(sim.Nx - 1) :
              SpongeShaped([j \in 0..(sim.Ny - 1) |-> SpongeMagnitude(sim, i, j)], sim.Ny)
        /\ \A i \in 0..(sim.Nx - 1), j \in 0..(sim.Ny - 1) :
              /\ (wx <= i /\ i < sim.Nx - wx /\ wy <= j /\ j < sim.Ny - wy)
                    => SpongeMagnitude(sim, i, j) = 0
              /\ SpongeMagnitude(sim, i, j)
                    = Max(alone(CapProximity(i, pf.Nx, wx)),
                          alone(CapProximity(j, pf.Ny, wy)))

\* r is s after an accepted apply_eigenstate(state)
EigenstateApplied(s, state, r) ==
    /\ DOMAIN r.psi = 0..(s.Nx * s.Ny - 1)
    /\ \A k \in DOMAIN r.psi : r.psi[k] = state.psi[k + 1]
    /\ r.packets = <<>>
    /\ ~r.running
    /\ ~r.diagnostics.unstable
    /\ r.diagnostics.steps_since_baseline = 0
    /\ r.diagnostics.current_mass = mass(r)
    /\ r.diagnostics.current_interior_mass = interior_mass(r)
    /\ r.diagnostics.initial_mass = r.diagnostics.current_mass
    /\ r.diagnostics.initial_interior_mass = r.diagnostics.current_interior_mass
    /\ [r EXCEPT !.psi = s.psi, !.packets = s.packets, !.running = s.running,
                 !.diagnostics = s.diagnostics] = s

\* C20: from every reachable state, apply_eigenstate(state) with
\* state.psi.size() /= Nx * Ny changes nothing; with state.psi.size() =
\* Nx * Ny, whatever grid the state was computed on, it replaces psi by
\* state.psi, empties the retained packet list, clears running and
\* re-baselines the diagnostics (unstable false, steps_since_baseline 0,
\* initial masses = current masses).
C20_ApplyEigenstate ==
    [](\A e \in EigenInputs :
          LET r == apply_eigenstate(sim, e)
          IN  IF Len(e.psi) = sim.Nx * sim.Ny
              THEN EigenstateApplied(sim, e, r)
              ELSE r = sim)

\* the 9 x 8 grid holds the eigenstate of its size, which the 8 x 8 grid
\* would reject: it has no packets, does not run and is at its baseline
C20_Witness ==
    LET e == EigenState((MinGrid + 1) * MinGrid)
    IN  /\ sim.Nx = MinGrid + 1 /\ sim.Ny = MinGrid
        /\ \A k \in DOMAIN sim.psi : sim.psi[k] = e.psi[k + 1]
        /\ sim.packets = <<>>
        /\ ~sim.running
        /\ sim.diagnostics.initial_mass = mass(sim)
        /\ mass(sim).v > 0

\* the exact product of two complex numbers, without the division by FixQ
CMulExact(c, x) == Cx(c.re * x.re - c.im * x.im, c.re * x.im + c.im * x.re)

\* row i of the tridiagonal matrix of sys times x, in units of 1 / FixQ;
\* a[0] and c[n - 1] are not part of the matrix
TridiagRow(sys, x, i) ==
    LET lo == IF i > 0 THEN CMulExact(sys.a[i], x[i - 1]) ELSE CZero
        up == IF i < sys.n - 1 THEN CMulExact(sys.c[i], x[i + 1]) ELSE CZero
    IN  CAdd(CAdd(lo, CMulExact(sys.b[i], x[i])), up)

\* the largest component of (matrix of sys) * x - (right-hand side of sys),
\* in units of 1 / FixQ
TridiagResidual(sys, x) ==
    LET size(i) == LET r == TridiagRow(sys, x, i)
                   IN  Max(Abs(r.re - FixQ * sys.d[i].re), Abs(r.im - FixQ * sys.d[i].im))
    IN  CHOOSE m \in {size(i) : i \in 0..(sys.n - 1)} :
            \A i \in 0..(sys.n - 1) : size(i) <= m

\* C21: for every strictly diagonally dominant system of 1 to 3 rows,
\* solve_tridiagonal leaves in d an x that the original matrix maps back to
\* the original right-hand side (to within four units of the last place, the
\* rounding of the quotients and products), the b and d it leaves are the
\* same whatever a[0] and c[n - 1] hold, a and c are as they were, and b and
\* d keep the indices 0..n-1.
C21_TridiagonalSolve ==
    ops = 1 =>
        /\ ~(\E i \in 0..(sim.n - 1) : sim.d[i].nf)
        /\ TridiagResidual(sim.sys, sim.d) <= 4 * FixQ
        /\ \A u \in TridiagUnused :
              LET r == solve_tridiagonal([sim.sys.a EXCEPT ![0] = u], sim.sys.b,
                                         [sim.sys.c EXCEPT ![sim.n - 1] = u],
                                         sim.sys.d, sim.n)
              IN  r.b = sim.b /\ r.d = sim.d
        /\ sim.a = sim.sys.a /\ sim.c = sim.sys.c
        /\ DOMAIN sim.b = 0..(sim.n - 1) /\ DOMAIN sim.d = 0..(sim.n - 1)

\* a solved system of three rows whose a[0] and c[2] held 7 - 5i: b and d were
\* overwritten and d holds the solution
C21_Witness ==
    /\ ops = 1
    /\ sim.n = 3
    /\ sim.sys.a[0] # CZero /\ sim.sys.c[2] # CZero
    /\ sim.b # sim.sys.b
    /\ sim.d # sim.sys.d
    /\ TridiagResidual(sim.sys, sim.d) <= 4 * FixQ
    /\ TridiagResidual(sim.sys, sim.sys.d) > 64 * FixQ

\* the tolerances update_diagnostics compares against
TotalTol(s) == FracMax(FracInt(0), s.stability.rel_mass_drift_tol)
InteriorTol(s) == FracMax(FracInt(0), s.stability.rel_interior_mass_drift_tol)

Counter(s) == s.diagnostics.steps_since_baseline

\* C23: steps_since_baseline counts the step() calls completed since the
\* most recent refresh_diagnostics_baseline.  From every state with a call
\* still to make: refresh_diagnostics_baseline and reset() leave the counter
\* at 0, step() leaves it one higher, also when unstable is already set,
\* and injectGaussian, addBox and addWell leave it as it is; so the counter
\* of every state is at most the number of calls made since the last reset.
C23_WarmupCounter ==
    []( /\ Counter(sim) \in 0..ops
        /\ ops < MaxOps =>
             /\ Counter(refresh_diagnostics_baseline(sim)) = 0
             /\ Counter(reset(sim)) = 0
             /\ Counter(step(sim)) = Counter(sim) + 1
             /\ \A p \in PacketInputs : Counter(injectGaussian(sim, p)) = Counter(sim)
             /\ Counter(addBox(sim, TheBox)) = Counter(sim)
             /\ Counter(addWell(sim, TheWell)) = Counter(sim) )

\* a step() was made while unstable was already set by an injection, and
\* counted
C23_Witness ==
    /\ sim.diagnostics.unstable
    /\ sim.diagnostics.reason = "psi contains NaN/Inf"
    /\ Counter(sim) = 1
    /\ ops = 2

\* cell (i, j) of f, and 0 for an index outside the grid
At(f, i, j, Nx, Ny) ==
    IF i \in 0..(Nx - 1) /\ j \in 0..(Ny - 1) THEN f[j * Nx + i] ELSE CZero

\* (I + alpha D) f at cell (i, j) along the axis of direction (di, dj), with
\* spacing h, every neighbour outside the grid read as 0
Explicit(f, i, j, di, dj, h, s) ==
    LET r == FracDiv(FracMul(s.dt, Frac(1, 4)), FracMul(h, h))
        center == At(f, i, j, s.Nx, s.Ny)
        lap == CAdd(CSub(At(f, i - di, j - dj, s.Nx, s.Ny), CScale(2, center)),
                    At(f, i + di, j + dj, s.Nx, s.Ny))
    IN  CAdd(center, CMulI(CMulFrac(r, lap)))

\* row j of the x-sweep of psi, and column i of the y-sweep of phi, solved
\* with the coefficients (-alpha, 1 + 2 alpha, -alpha)
RowOf(psi, j, s) ==
    LET co == TriCoeffs(AxisAlpha(s.dx, s.dt), s.Nx)
    IN  solve_tridiagonal(co.a, co.b, co.c,
            [i \in 0..(s.Nx - 1) |-> Explicit(psi, i, j, 0, 1, s.dy, s)], s.Nx).d
ColumnOf(phi, i, s) ==
    LET co == TriCoeffs(AxisAlpha(s.dy, s.dt), s.Ny)
    IN  solve_tridiagonal(co.a, co.b, co.c,
            [j \in 0..(s.Ny - 1) |-> Explicit(phi, i, j, 1, 0, s.dx, s)], s.Ny).d

\* C24: a step is the half-kick, the x-sweep, the y-sweep and the half-kick,
\* in that order.  The x-sweep leaves psi as it is and writes only the row of
\* phi it solves, with the values the kicked psi alone determines (neighbours
\* outside the grid read as 0); the y-sweep leaves phi as it is and writes
\* only the column of psi it solves, with the values phi alone determines;
\* so for every order of the rows and every order of the columns phi is the
\* x-sweep of the kicked psi and the result is the one the loops in index
\* order give.
C24_SweepIndependence ==
    [][ /\ (sim.pc = "kick") => sim'.pc = "x"
        /\ (sim.pc = "x" /\ sim'.pc = "x") =>
              /\ sim'.psi = sim.psi
              /\ \A k \in DOMAIN sim.phi :
                    sim'.phi[k] # sim.phi[k] => k \div sim.Nx = sim.cur
              /\ sim.cur >= 0 =>
                    \A i \in 0..(sim.Nx - 1) :
                        sim'.phi[sim.cur * sim.Nx + i] = RowOf(sim.psi, sim.cur, sim)[i]
        /\ (sim.pc = "x" /\ sim'.pc = "y") =>
              /\ sim'.psi = sim.psi
              /\ sim'.phi = SweepX(sim.psi, sim.Nx, sim.Ny, sim.dx, sim.dy, sim.dt)
        /\ (sim.pc = "y" /\ sim'.pc = "y") =>
              /\ sim'.phi = sim.phi
              /\ \A k \in DOMAIN sim.psi :
                    sim'.psi[k] # sim.psi[k] => k % sim.Nx = sim.cur
              /\ sim.cur >= 0 =>
                    \A j \in 0..(sim.Ny - 1) :
                        sim'.psi[j * sim.Nx + sim.cur] = ColumnOf(sim.phi, sim.cur, sim)[j]
        /\ (sim'.pc = "done") =>
              /\ sim.pc = "y"
              /\ sim'.phi = sim.phi
              /\ sim'.psi = CrankNicolsonADI_step(sim.psi_in, sim.Nx, sim.Ny,
                                                  sim.dx, sim.dy, sim.dt, sim.V)
      ]_vars

\* a step whose rows and whose columns were not taken in index order: the
\* last row solved was row 0, the last column solved was column 0, and the
\* step changed psi
C24_Witness ==
    /\ sim.pc = "done"
    /\ sim.d = RowOf(PotentialKick(sim.psi_in, sim.V, sim.dt), 0, sim)
    /\ sim.rhs = ColumnOf(sim.phi, 0, sim)
    /\ sim.psi # sim.psi_in

\* the arrays a, b, c hold (-alpha, 1 + 2 alpha, -alpha) for an axis of n
\* cells of spacing h, with a[0] = 0 and c[n - 1] = 0
Pristine(a, b, c, h, dt, n) ==
    LET al == AxisAlpha(h, dt)
    IN  /\ DOMAIN a = 0..(n - 1) /\ DOMAIN b = 0..(n - 1) /\ DOMAIN c = 0..(n - 1)
        /\ \A i \in 0..(n - 1) :
              /\ b[i] = Cx(FixQ + 2 * al.re, 2 * al.im)
              /\ a[i] = (IF i = 0 THEN CZero ELSE Cx(-al.re, -al.im))
              /\ c[i] = (IF i = n - 1 THEN CZero ELSE Cx(-al.re, -al.im))

\* C25: solve_tridiagonal overwrites the diagonal it is given, and the step
\* passes the same scratch arrays to the solve of every row (a, b, c, d) and
\* of every column (ay_a, ay_b, ay_c, rhs).  Every solve starts from arrays
\* holding (-alpha, 1 + 2 alpha, -alpha) with a[0] = 0 and c[n - 1] = 0, and
\* leaves a diagonal that differs from 1 + 2 alpha in every entry but the
\* first; the coefficient loops that precede the next solve replace that
\* leftover diagonal.
C25_ScratchReuse ==
    [][ /\ (sim.pc = "x" /\ sim.cur >= 0) =>
              /\ Pristine(sim.a, sim.b, sim.c, sim.dx, sim.dt, sim.Nx)
              /\ sim'.a = sim.a /\ sim'.c = sim.c
              /\ sim'.b[0] = sim.b[0]
              /\ \A i \in 1..(sim.Nx - 1) : sim'.b[i] # sim.b[i]
        /\ (sim.pc = "x" /\ sim.cur = -1 /\ sim'.pc = "x") =>
              /\ sim.lines # {} => ~Pristine(sim.a, sim.b, sim.c, sim.dx, sim.dt, sim.Nx)
              /\ Pristine(sim'.a, sim'.b, sim'.c, sim.dx, sim.dt, sim.Nx)
        /\ (sim.pc = "y" /\ sim.cur >= 0) =>
              /\ Pristine(sim.ay_a, sim.ay_b, sim.ay_c, sim.dy, sim.dt, sim.Ny)
              /\ sim'.ay_a = sim.ay_a /\ sim'.ay_c = sim.ay_c
              /\ sim'.ay_b[0] = sim.ay_b[0]
              /\ \A j \in 1..(sim.Ny - 1) : sim'.ay_b[j] # sim.ay_b[j]
        /\ (sim.pc = "y" /\ sim.cur = -1 /\ sim'.pc = "y") =>
              /\ sim.lines # {} => ~Pristine(sim.ay_a, sim.ay_b, sim.ay_c, sim.dy, sim.dt, sim.Ny)
              /\ Pristine(sim'.ay_a, sim'.ay_b, sim'.ay_c, sim.dy, sim.dt, sim.Ny)
        /\ (sim.pc = "y" /\ sim'.pc = "y") =>
              sim'.a = sim.a /\ sim'.b = sim.b /\ sim'.c = sim.c /\ sim'.d = sim.d
      ]_vars

\* the coefficients of the last column to be solved are in place, seven
\* solves after the column scratch was first used, while the row scratch
\* still holds the diagonal its last solve left
C25_Witness ==
    /\ sim.pc = "y" /\ sim.cur >= 0
    /\ sim.lines = (0..(sim.Nx - 1)) \ {sim.cur}
    /\ Pristine(sim.ay_a, sim.ay_b, sim.ay_c, sim.dy, sim.dt, sim.Ny)
    /\ ~Pristine(sim.a, sim.b, sim.c, sim.dx, sim.dt, sim.Nx)

\* values an int may have after the conversion (int)std::floor(x), which is
\* undefined for an x outside the range of int and for NaN
CastOutcomes(N) ==
    {-2147483647 - 1, -2147483647, -N, -1, 0, 1, N - 1, N, N + 1, 2147483647}

\* C26: whatever the coordinates of the box addBox appends, its index
\* rectangle satisfies 0 <= ix0 <= ix1 <= Nx - 1 and 0 <= iy0 <= iy1 <= Ny - 1
\* (the clamp brings every int into 0..N-1, also those an out-of-range
\* conversion may yield); the rebuilt V has the cells it had; the box adds
\* its height to the real part of every cell of the rectangle, which is at
\* least one cell, and changes no other cell.
C26_BoxIndexSafety ==
    [][ LET b == sim'.pfield.boxes[Len(sim'.pfield.boxes)]
            r == BoxRect(b, sim'.Nx, sim'.Ny)
        IN  /\ Len(sim'.pfield.boxes) = Len(sim.pfield.boxes) + 1
            /\ 0 <= r.ix0 /\ r.ix0 <= r.ix1 /\ r.ix1 <= sim'.Nx - 1
            /\ 0 <= r.iy0 /\ r.iy0 <= r.iy1 /\ r.iy1 <= sim'.Ny - 1
            /\ \A v \in CastOutcomes(sim'.Nx) : Clamp(0, sim'.Nx - 1, v) \in 0..(sim'.Nx - 1)
            /\ \A v \in CastOutcomes(sim'.Ny) : Clamp(0, sim'.Ny - 1, v) \in 0..(sim'.Ny - 1)
            /\ DOMAIN sim'.V = 0..(sim'.Nx * sim'.Ny - 1)
            /\ \E k \in DOMAIN sim'.V : sim'.V[k].re = sim.V[k].re + b.height
            /\ \A k \in DOMAIN sim'.V :
                  /\ sim'.V[k].im = sim.V[k].im
                  /\ sim'.V[k].re - sim.V[k].re =
                        (IF /\ k % sim'.Nx \in r.ix0..r.ix1
                            /\ k \div sim'.Nx \in r.iy0..r.iy1
                         THEN b.height ELSE 0)
      ]_vars

\* the 9 x 8 grid after a box entirely below and left of the domain and a
\* box of no area on the far corner: each raised one corner cell
C26_Witness ==
    /\ sim.Nx = MinGrid + 1
    /\ Len(sim.pfield.boxes) = 2
    /\ sim.pfield.boxes[1].x1.n < 0
    /\ sim.pfield.boxes[2] = PointBox(FracInt(1), FracInt(1), 2 * FixQ)
    /\ sim.V[0].re = 3 * FixQ
    /\ sim.V[sim.Nx * sim.Ny - 1].re = 2 * FixQ
    /\ \A k \in 1..(sim.Nx * sim.Ny - 2) : sim.V[k].re = 0

\* the monitor's test capEnabled of simulation.cpp:208
MonitorCapEnabled(pf) == pf.cap_strength > 0 /\ FracLess(FracInt(0), pf.cap_ratio)

\* C27 as stated: whenever update_diagnostics treats CAP as disabled, the V
\* built from the same parameters has zero imaginary part in every cell
C27_AsClaimed ==
    ~MonitorCapEnabled(sim.pfield) =>
        \A k \in DOMAIN sim.V : sim.V[k].im = 0

\* C28 as stated: after every operation, a psi known to hold a NaN/Inf
\* (has_non_finite) is reported unstable
C28_AsClaimed ==
    sim.diagnostics.has_non_finite => sim.diagnostics.unstable

\* C29: the frame of injectGaussian.  From every state with a call still to
\* make, injectGaussian(p) adds the field of p to psi cell by cell and leaves
\* the packet list, V, the potential field, running and every member other
\* than psi and the diagnostics as they were; reset() and resize() after the
\* injection return exactly what they return without it, so the injected
\* packet is gone from psi.
C29_InjectFrame ==
    [](ops < MaxOps =>
          \A p \in PacketInputs :
              LET r == injectGaussian(sim, p)
                  f == PacketField(sim, p)
              IN  /\ \A k \in DOMAIN sim.psi : r.psi[k] = CAdd(sim.psi[k], f[k])
                  /\ r.packets = sim.packets
                  /\ r.V = sim.V
                  /\ r.running = sim.running
                  /\ [r EXCEPT !.psi = sim.psi, !.diagnostics = sim.diagnostics] = sim
                  /\ reset(r) = reset(sim)
                  /\ resize(r, MinGrid + 1, MinGrid - 1) = resize(sim, MinGrid + 1, MinGrid - 1))

\* a packet was injected and nothing is retained: psi holds it, the packet
\* list is empty, and reset() leaves a psi of zeros
C29_Witness ==
    /\ ops = 1
    /\ sim.packets = <<>>
    /\ Counter(sim) = 0
    /\ \E k \in DOMAIN sim.psi : sim.psi[k] # CZero
    /\ AllFinite(sim.psi)
    /\ \A k \in DOMAIN sim.psi : reset(sim).psi[k] = CZero

\* C30: running is cleared by a step() that ends unstable with auto-pause
\* on, and by an accepted apply_eigenstate; every other operation, and every
\* other step() and a rejected apply_eigenstate, leave it as it is.  When
\* injectGaussian is the update that first flags the instability, running
\* keeps its value, and the next step() is executed in full (psi advanced
\* by the CN-ADI step, the step counted) before it clears running.
C30_RunningFrame ==
    [](ops < MaxOps =>
          /\ resize(sim, MinGrid + 1, MinGrid - 1).running = sim.running
          /\ reset(sim).running = sim.running
          /\ addBox(sim, TheBox).running = sim.running
          /\ addWell(sim, TheWell).running = sim.running
          /\ refresh_diagnostics_baseline(sim).running = sim.running
          /\ \A e \in EigenInputs :
                apply_eigenstate(sim, e).running =
                    (IF Len(e.psi) = sim.Nx * sim.Ny THEN FALSE ELSE sim.running)
          /\ LET u == step(sim)
             IN  u.running =
                    (IF u.diagnostics.unstable /\ u.stability.auto_pause_on_instability
                     THEN FALSE ELSE sim.running)
          /\ \A p \in PacketInputs :
                LET r == injectGaussian(sim, p)
                IN  /\ r.running = sim.running
                    /\ (~sim.diagnostics.unstable /\ r.diagnostics.unstable) =>
                          LET u == step(r)
                          IN  /\ u.psi = Evolve(r).psi
                              /\ Counter(u) = Counter(r) + 1
                              /\ u.diagnostics.unstable
                              /\ u.running =
                                    (r.running /\ ~r.stability.auto_pause_on_instability))

\* playback is on and the instability was flagged with no step() since the
\* baseline, by an injection, under auto-pause
C30_Witness ==
    /\ sim.running
    /\ sim.diagnostics.unstable
    /\ Counter(sim) = 0
    /\ sim.stability.auto_pause_on_instability
    /\ ops < MaxOps

====
